---- MODULE Spec2Model ----
(***************************************************************************)
(* dox: the run command (version check, backend selection, exit), the      *)
(* structured-API (Docker) execution controller with the tasks it starts   *)
(* (stdin copy, output copy, signal relay), the CLI-subprocess (Podman)    *)
(* backend, and the engine they talk to.                                   *)
(***************************************************************************)
EXTENDS Integers, Sequences, FiniteSets, TLC

(* ---------------------------------------------------------------- bounds *)
\* Host signals delivered to the process while the relay is subscribed.
MaxSignals == 2
\* Output chunks the container writes to the attached stream.
MaxOutput == 2
\* Lengths of the lists a request is built from: the user's arguments, and
\* the configuration's environment names, volumes and port mappings.
MaxArgs == 2
MaxEnv == 2
MaxVolumes == 2
MaxPorts == 2
MaxStream == 3

(* ------------------------------------------------------ program constants *)
\* utils/signals.go: sigChan := make(chan os.Signal, 1)
SigChanCap == 1
\* runtime: errChan := make(chan error, 2)
ErrChanCap == 2
\* The code every failing return of ExecuteCommand carries (return 1, err),
\* and the code runCommand exits with on an execution error (os.Exit(1)).
LocalFailure == 1
\* config: parts := strings.SplitN(volume, ":", 3)
VolumeParts == 3

\* signal.Notify(sigChan, SIGINT, SIGTERM, SIGQUIT, SIGHUP): the relay
\* handles the four alike, and two of them stand for all.
Signals == {"SIGINT", "SIGTERM"}
\* Status codes a container reports (a sample of 0..255).
StatusCodes == {0, 1, 2}
\* An image reference is the sequence of its parts; "" is <<>>.
\* Image references of the command configurations that are run: a tagged
\* one and one pinned to a content digest.
RegistryImage == <<"alpine", ":", "3.19">>
PinnedImage == <<"alpine", "@sha256:", "0f3a">>
\* The command that is run, and fmt.Sprintf("dox-%s:latest", command).
Command == "shell"
ImageName(command) == <<"dox-", command, ":latest">>
BuiltImage == ImageName(Command)
\* strings.Contains(image, "@sha256:")
HasDigestPin(image) == \E i \in DOMAIN image : image[i] = "@sha256:"
\* globalConfig.Runtime: "podman" or anything else (Docker).
Runtimes == {"docker", "podman"}
\* The channel SetupSignalHandler makes, and the one CleanupSignalHandler makes.
RelayChan == "sigChan"
FreshChan == "fresh"

VARIABLES
    pc,         \* position of runCommand / ExecuteCommand
    runtime,    \* globalConfig.Runtime
    force,      \* the --upgrade flag as the user gave it
    stored,     \* the version store's hash for the command, against the
                \* hash of its YAML file now: none, same, stale
    commandChanged, \* runCommand's commandChanged
    cfg,        \* *config.CommandConfig: [Image, Build]
    upgrade,    \* runCommand's upgrade, handed to ExecuteCommand
    reqImage,   \* the image reference of the creation request / podman run
    host,       \* host terminal facts: [stdinTty, stdoutTty, entryMode]
    tty,        \* containerConfig.Tty
    termMode,   \* mode of the terminal on host stdin
    oldTermState, \* the state SetupTerminal returned ("nil" when none)
    imageExists, \* the local imageExists of the build branch
    log,        \* engine calls the controller made, in order: [op, res]
    cstate,     \* the container: none, created, running, exited
    exitStatus, \* the status the container exited with
    conn,       \* hijackedResp: none, open, closed
    closeWrites, \* calls of hijackedResp.CloseWrite() so far
    written,    \* output chunks the container wrote
    copied,     \* output chunks copied to host stdout/stderr
    stdinPc,    \* stdin-copy goroutine
    outPc,      \* output-copy goroutine
    errChan,    \* values sent on errChan
    notify,     \* channels registered with signal.Notify
    sigChan,    \* buffer of the relay's channel
    relayPc,    \* relay goroutine: off, recv, kill
    killErr,    \* the relay's err: result of its last ContainerKill
    received,   \* signals the process received while subscribed
    kills,      \* kill requests issued to the engine, in order (the last
                \* one is in flight while relayPc = "kill")
    waitPc,     \* ContainerWait request: none, pending, done
    statusCh,   \* buffer of statusCh: empty or one status code
    errCh,      \* buffer of errCh: empty or one error
    cancelled,  \* ctx.Done() is closed
    recv,       \* what the select received: [kind, code]
    retCode,    \* ExecuteCommand's returned int
    retErr,     \* ExecuteCommand's returned error ("nil" or a message)
    procState,  \* wrapper process: running, exited, killed
    procExit,   \* the wrapper's exit code
    rpc,        \* request building: load, docker, podman, done (off in a run)
    rin,        \* its inputs: the configuration file's fields, the user's
                \* arguments, the host's environment and working directory
    rvol,       \* config.Volumes as LoadCommandConfig returns it
    dreq,       \* the creation request DockerRuntime.ExecuteCommand builds
    pargs,      \* the arguments PodmanRuntime.ExecuteCommand builds
    gfile,      \* the global configuration file: [state, runtime]
    cfile,      \* the command's configuration file: ok, missing, ...
    gcfg,       \* GlobalConfig.Runtime as LoadGlobalConfig returns it
    rt,         \* the runtime runCommand has made: none, docker, podman
    calls,      \* the calls runCommand has made on a runtime, in order
    lerr,       \* the error runCommand returns ("nil": none)
    scall,      \* an engine call with a progress stream: [op, ok]
    stream,     \* the status objects of its response body, in order
    sres        \* the error BuildImage or PullImage returns ("none": yet to)

vars == <<pc, runtime, force, stored, commandChanged, reqImage,
          cfg, upgrade, host, tty, termMode, oldTermState,
          imageExists, log, cstate, exitStatus, conn, closeWrites, written,
          copied, stdinPc, outPc, errChan, notify, sigChan, relayPc,
          killErr, received, kills, waitPc, statusCh, errCh, cancelled, recv,
          retCode, retErr, procState, procExit,
          rpc, rin, rvol, dreq, pargs, gfile, cfile, gcfg, rt, calls, lerr,
          scall, stream, sres>>

\* Groups used in UNCHANGED clauses.
cfgVars == <<cfg, upgrade, host>>
runVars == <<runtime, force, stored, commandChanged>>
termVars == <<tty, termMode, oldTermState>>
engineVars == <<imageExists, cstate, exitStatus, written>>
ioVars == <<conn, closeWrites, copied, stdinPc, outPc, errChan>>
sigVars == <<notify, sigChan, relayPc, killErr, received, kills>>
waitVars == <<waitPc, statusCh, errCh, recv>>
retVars == <<retCode, retErr, procState, procExit>>
loadVars == <<gfile, cfile, gcfg, rt, calls, lerr>>
streamVars == <<scall, stream, sres>>
reqVars == <<rpc, rin, rvol, dreq, pargs, loadVars, streamVars>>

(* ---------------------------------------------------------------- helpers *)
Entry(op, res) == [op |-> op, res |-> res]

\* Positions inside ExecuteCommand (the context can be cancelled there).
ExecPcs == {"resolve", "remove", "build", "ports", "eagerpull", "create",
            "pull", "retry", "attach", "start", "term", "signals", "gostdin",
            "goout", "callwait", "waiting",
            "p_resolve", "p_remove", "p_build", "p_pull", "p_prepare",
            "p_run", "p_wait"}

Alive == procState = "running"

\* config.CommandConfig values LoadCommandConfig lets through: an image
\* (tagged or pinned), an inline Dockerfile, or both.
Configs == {[Image |-> RegistryImage, Build |-> FALSE],
            [Image |-> PinnedImage, Build |-> FALSE],
            [Image |-> <<>>, Build |-> TRUE],
            [Image |-> RegistryImage, Build |-> TRUE]}

\* Host terminal situations: stdin/stdout a terminal or not, and the mode
\* the terminal on stdin is in when the run begins.
Hosts == {[stdinTty |-> TRUE, stdoutTty |-> TRUE, entryMode |-> "cooked"],
          [stdinTty |-> TRUE, stdoutTty |-> TRUE, entryMode |-> "raw"],
          [stdinTty |-> TRUE, stdoutTty |-> FALSE, entryMode |-> "cooked"],
          [stdinTty |-> FALSE, stdoutTty |-> TRUE, entryMode |-> "none"]}

\* isTerminal(): both stdin and stdout are character devices.
isTerminal == host.stdinTty /\ host.stdoutTty

\* The relay and the copy tasks read nothing of the configuration and share
\* no state with each other, so each is explored on one Docker run of an
\* unchanged registry-image command without the upgrade flag: host signals
\* on the interactive run,
\* container output on the run whose stdin is not a terminal. Every run
\* explores image resolution, creation, the terminal and the exit wait.
PlainRun ==
    /\ runtime = "docker" /\ stored = "same"
    /\ cfg.Image = RegistryImage /\ ~cfg.Build /\ ~upgrade
SignalBudget ==
    IF PlainRun /\ isTerminal /\ host.entryMode = "cooked"
    THEN MaxSignals ELSE 0
OutputBudget ==
    IF PlainRun /\ ~host.stdinTty THEN MaxOutput ELSE 0

(* ------------------------------------------- strings and request inputs *)
\* A string is the sequence of its parts, "" is <<>>; ":" is a part of its
\* own, and so is a reference to an environment variable.
Sep == ":"
EnvNames == {"A", "B"}
RefName == [r \in {"${A}", "${B}"} |-> IF r = "${A}" THEN "A" ELSE "B"]

\* strings.SplitN(s, ":", n)
RECURSIVE SplitN(_, _)
SplitN(s, n) ==
    IF n = 1 \/ ~\E k \in DOMAIN s : s[k] = Sep
    THEN <<s>>
    ELSE LET i == CHOOSE k \in DOMAIN s :
                    s[k] = Sep /\ \A j \in 1..(k - 1) : s[j] # Sep
         IN  <<SubSeq(s, 1, i - 1)>>
                \o SplitN(SubSeq(s, i + 1, Len(s)), n - 1)

\* strings.Join(parts, ":")
RECURSIVE Join(_)
Join(parts) ==
    IF parts = <<>> THEN <<>>
    ELSE IF Len(parts) = 1 THEN parts[1]
    ELSE parts[1] \o <<Sep>> \o Join(Tail(parts))

\* os.Getenv(name): the value, "" when the variable is unset or empty.
Getenv(env, name) == env[name]

\* os.ExpandEnv(s): every reference replaced by the variable's value.
RECURSIVE ExpandEnv(_, _)
ExpandEnv(s, env) ==
    IF s = <<>> THEN <<>>
    ELSE (IF Head(s) \in DOMAIN RefName
          THEN Getenv(env, RefName[Head(s)])
          ELSE <<Head(s)>>) \o ExpandEnv(Tail(s), env)

\* Sequences over S of length at most n.
SeqUpTo(S, n) == UNION {[1..k -> S] : k \in 0..n}

\* Volume strings of a configuration file: the current directory, sources
\* with references (set and unset), a mode, more than three parts, and
\* strings without a target.
VolumeStrings ==
    {<<".", Sep, "/workspace">>,
     <<"${A}", "/.ssh", Sep, "/root/.ssh">>,
     <<"${B}", "/cache", Sep, "/cache", Sep, "ro">>,
     <<"/data", Sep, "/data", Sep, "ro", Sep, "z">>,
     <<".">>,
     <<"${A}", "/scratch">>}

\* Port mapping strings, by their parts: host IP, host and container port
\* ranges and protocol; valid == FALSE is a string nat.ParsePortSpec
\* rejects.
PortSpec(ip, hlo, hhi, clo, chi, proto, valid) ==
    [ip |-> ip, hlo |-> hlo, hhi |-> hhi, clo |-> clo, chi |-> chi,
     proto |-> proto, valid |-> valid]
PortStrings ==
    {PortSpec("", 8080, 8080, 80, 80, "tcp", TRUE),
     PortSpec("127.0.0.1", 9090, 9090, 80, 80, "tcp", TRUE),
     PortSpec("", 8000, 8001, 8000, 8001, "tcp", TRUE),
     PortSpec("", 5353, 5353, 53, 53, "udp", TRUE),
     PortSpec("", 0, 0, 0, 0, "tcp", FALSE)}

\* Network modes of a configuration file: unset, host, bridge, a custom one.
Networks == {<<>>, <<"host">>, <<"bridge">>, <<"mynet">>}

\* The host's environment: each variable empty/unset, or set.
Environments == [EnvNames -> {<<>>, <<"/home/u">>, <<"w">>}]

\* One input of request building, and the input every varied field is
\* combined with.
Input(command, args, environment, volumes, network, ports, build, env) ==
    [Command |-> command, Args |-> args, Environment |-> environment,
     Volumes |-> volumes, Network |-> network, Ports |-> ports,
     Build |-> build, Image |-> RegistryImage, env |-> env,
     cwd |-> <<"/w">>]
DefaultEnv == [n \in EnvNames |-> IF n = "A" THEN <<"/home/u">> ELSE <<>>]
DefaultInput ==
    Input(<<>>, <<>>, <<>>, <<>>, <<>>, <<>>, FALSE, DefaultEnv)

\* The command override and arguments, the environment names and the host
\* environment, the volumes, and the network mode and ports are each read
\* by a part of the request of their own, so each group is varied with the
\* others at their default.
Inputs ==
    {Input(c, a, <<>>, <<>>, <<>>, <<>>, b, DefaultEnv) :
        c \in {<<>>, <<"sh">>},
        a \in SeqUpTo({<<"-c">>, <<"ls">>}, MaxArgs), b \in BOOLEAN}
    \cup {Input(<<>>, <<>>, e, <<>>, <<>>, <<>>, FALSE, h) :
             e \in SeqUpTo(EnvNames, MaxEnv), h \in Environments}
    \cup {Input(<<>>, <<>>, <<>>, v, <<>>, <<>>, FALSE, DefaultEnv) :
             v \in SeqUpTo(VolumeStrings, MaxVolumes)}
    \cup {Input(<<>>, <<>>, <<>>, <<>>, n, q, FALSE, DefaultEnv) :
             n \in Networks, q \in SeqUpTo(PortStrings, MaxPorts)}

\* The global configuration file: absent (or not readable as YAML), with
\* a runtime entry of the wrong type, or read, with the runtime it names
\* ("unset": no runtime entry).
GlobalFile(state, name) == [state |-> state, runtime |-> name]
DefaultGlobal == GlobalFile("absent", "unset")
GlobalFiles ==
    {DefaultGlobal, GlobalFile("mistyped", "unset")}
    \cup {GlobalFile("ok", n) :
             n \in {"unset", "docker", "podman", "nerdctl", "Podman"}}

\* The command's configuration file: read, missing, unreadable, or with
\* fields of the wrong type.
CommandFiles == {"ok", "missing", "unreadable", "mistyped"}

\* Configurations with and without an image and an inline Dockerfile.
LoadInputs ==
    {[DefaultInput EXCEPT !.Image = i, !.Build = b] :
        i \in {<<>>, RegistryImage}, b \in BOOLEAN}

\* The status objects the engine writes to a progress stream: progress, an
\* error (its error and errorDetail entries are written together), and
\* what is left of an object when the stream breaks off.
StatusObject(error, detail, broken) ==
    [error |-> error, detail |-> detail, broken |-> broken]
Progress == StatusObject("", "", FALSE)
ErrorObject == StatusObject("no space left", "no space left", FALSE)
Truncated == StatusObject("", "", TRUE)
Streams == SeqUpTo({Progress, ErrorObject, Truncated}, MaxStream)
NoCall == [op |-> "none", ok |-> TRUE]

\* No request, no arguments (nothing built yet).
NoRequest ==
    [err |-> "none", Image |-> <<>>, Cmd |-> <<>>, Env |-> <<>>,
     Binds |-> <<>>, WorkingDir |-> <<>>, NetworkMode |-> <<>>,
     PortBindings |-> <<>>, ExposedPorts |-> {}]
NoArgs == [opts |-> <<>>, image |-> <<>>, cmd |-> <<>>]

\* The version store as NewVersionStore loads it: no entry for the command,
\* the hash of its YAML file as it is now, or the hash of an older content.
Stores == {"none", "same", "stale"}

Init ==
    /\ pc = "version"
    /\ runtime \in Runtimes
    /\ force \in BOOLEAN
    /\ stored \in Stores
    /\ commandChanged = FALSE
    /\ cfg \in Configs
    /\ upgrade = force
    /\ reqImage = <<>>
    /\ host \in Hosts
    /\ tty = FALSE
    /\ termMode = host.entryMode
    /\ oldTermState = "nil"
    /\ imageExists = FALSE
    /\ log = <<>>
    /\ cstate = "none"
    /\ exitStatus = 0
    /\ conn = "none"
    /\ closeWrites = 0
    /\ written = 0
    /\ copied = 0
    /\ stdinPc = "idle"
    /\ outPc = "idle"
    /\ errChan = <<>>
    /\ notify = {}
    /\ sigChan = <<>>
    /\ relayPc = "off"
    /\ killErr = "nil"
    /\ received = <<>>
    /\ kills = <<>>
    /\ waitPc = "none"
    /\ statusCh = <<>>
    /\ errCh = <<>>
    /\ cancelled = FALSE
    /\ recv = [kind |-> "none", code |-> 0]
    /\ retCode = 0
    /\ retErr = "nil"
    /\ procState = "running"
    /\ procExit = 0
    /\ rpc = "off"
    /\ rin = DefaultInput
    /\ rvol = <<>>
    /\ dreq = NoRequest
    /\ pargs = NoArgs
    /\ gfile = DefaultGlobal
    /\ cfile = "ok"
    /\ gcfg = "docker"
    /\ rt = "none"
    /\ calls = <<>>
    /\ lerr = "nil"
    /\ scall = NoCall
    /\ stream = <<>>
    /\ sres = "none"

(* ---------------------------------------------- runCommand, run.go:42-116 *)
\* VersionStore.HasCommandChanged: (changed, error). hashOk == FALSE: the
\* YAML file could not be hashed.
HasCommandChanged(hashOk) ==
    IF ~hashOk THEN [changed |-> FALSE, err |-> "hash"]
    ELSE IF stored = "none" THEN [changed |-> TRUE, err |-> "nil"]
    ELSE [changed |-> stored # "same", err |-> "nil"]

\* Escalate that lets a changed definition of any command raise the flag.
Escalate_Any(up, changed) == up \/ changed

\* Lines 69-73: a changed definition raises the flag for an inline build.
Escalate(up, changed) == up \/ (changed /\ cfg.Build)

\* Lines 60-73: the version check (an error counts as unchanged) and the
\* rebuild decision.
CheckCommandVersion ==
    /\ Alive /\ pc = "version"
    /\ \E hashOk \in BOOLEAN :
         LET r == HasCommandChanged(hashOk)
             changed == IF r.err # "nil" THEN FALSE ELSE r.changed
         IN  /\ commandChanged' = changed
             /\ upgrade' = Escalate(upgrade, changed)
    /\ pc' = "run"
    /\ UNCHANGED <<runtime, force, stored, reqImage, cfg, host, termVars,
                   engineVars, log, ioVars, sigVars, waitVars, cancelled,
                   retVars, reqVars>>

\* return exitCode, err: the values ExecuteCommand hands back to runCommand.
ReturnWith(code, err) ==
    /\ retCode' = code
    /\ retErr' = err
    /\ pc' = "returned"
    /\ UNCHANGED <<procState, procExit,
                   runVars, reqImage, reqVars>>

\* RunIsAvailable that goes on to ExecuteCommand whatever the engine answers.
RunIsAvailable_Ignore ==
    /\ Alive /\ pc = "run"
    /\ \E ok \in BOOLEAN :
         log' = Append(log, Entry("ping", IF ok THEN "ok" ELSE "err"))
    /\ pc' = IF runtime = "podman" THEN "p_resolve" ELSE "resolve"
    /\ UNCHANGED <<cfgVars, termVars, engineVars, ioVars, sigVars, waitVars,
                   cancelled, retVars, runVars, reqImage, reqVars>>

\* Lines 75-96: the backend globalConfig.Runtime selects, and
\* rt.IsAvailable(ctx): the engine answers, or runCommand returns the error
\* and Execute() exits with 1.
RunIsAvailable ==
    /\ Alive /\ pc = "run"
    /\ \E ok \in BOOLEAN :
         /\ log' = Append(log, Entry("ping", IF ok THEN "ok" ELSE "err"))
         /\ IF ok
            THEN /\ pc' = IF runtime = "podman" THEN "p_resolve"
                                                ELSE "resolve"
                 /\ UNCHANGED retVars
            ELSE /\ pc' = "unavailable"
                 /\ procState' = "exited"
                 /\ procExit' = LocalFailure
                 /\ UNCHANGED <<retCode, retErr>>
    /\ UNCHANGED <<cfgVars, termVars, engineVars, ioVars, sigVars, waitVars,
                   cancelled,
                   runVars, reqImage, reqVars>>

(* ------------------------- DockerRuntime.ExecuteCommand: image resolution *)
\* InspectImage that assigns the derived image name for every command.
InspectImage_Overwrite ==
    /\ Alive /\ pc = "resolve"
    /\ IF cfg.Build
       THEN \E exists \in BOOLEAN :
              /\ exists => ~cancelled
              /\ log' = Append(log, Entry("inspect",
                                          IF exists THEN "ok" ELSE "err"))
              /\ imageExists' = exists
              /\ IF upgrade /\ exists
                 THEN pc' = "remove" /\ cfg' = cfg
                 ELSE IF ~exists
                 THEN pc' = "build" /\ cfg' = cfg
                 ELSE /\ pc' = "ports"
                      /\ cfg' = [cfg EXCEPT !.Image = BuiltImage]
       ELSE /\ pc' = "ports"
            /\ cfg' = [cfg EXCEPT !.Image = BuiltImage]
            /\ UNCHANGED <<log, imageExists>>
    /\ UNCHANGED <<upgrade, host, termVars, cstate, exitStatus, written,
                   ioVars, sigVars, waitVars, cancelled, retVars,
                   runVars, reqImage, reqVars>>

\* Lines 636-652: with an inline Dockerfile, inspect the derived image name
\* (the engine has it or not) and decide between remove, build and reuse.
\* Without an inline Dockerfile, go on.
InspectImage ==
    /\ Alive /\ pc = "resolve"
    /\ IF cfg.Build
       THEN \E exists \in BOOLEAN :
              /\ exists => ~cancelled
              /\ log' = Append(log, Entry("inspect",
                                          IF exists THEN "ok" ELSE "err"))
              /\ imageExists' = exists
              /\ IF upgrade /\ exists
                 THEN pc' = "remove" /\ cfg' = cfg
                 ELSE IF ~exists
                 THEN pc' = "build" /\ cfg' = cfg
                 ELSE /\ pc' = "ports"
                      /\ cfg' = [cfg EXCEPT !.Image = BuiltImage]
       ELSE /\ pc' = "ports"
            /\ UNCHANGED <<log, imageExists, cfg>>
    /\ UNCHANGED <<upgrade, host, termVars, cstate, exitStatus, written,
                   ioVars, sigVars, waitVars, cancelled, retVars,
                   runVars, reqImage, reqVars>>

\* RemoveImage whose failure aborts the invocation.
RemoveImage_Fatal ==
    /\ Alive /\ pc = "remove"
    /\ \E ok \in BOOLEAN :
         /\ ok => ~cancelled
         /\ log' = Append(log, Entry("remove", IF ok THEN "ok" ELSE "err"))
         /\ IF ok
            THEN /\ pc' = "build"
                 /\ UNCHANGED retVars
            ELSE ReturnWith(LocalFailure, "remove")
    /\ imageExists' = FALSE
    /\ UNCHANGED <<cfgVars, termVars, cstate, exitStatus, written, ioVars,
                   sigVars, waitVars, cancelled, runVars, reqImage, reqVars>>

\* Lines 644-651: r.RemoveImage; a failure is only warned about.
RemoveImage ==
    /\ Alive /\ pc = "remove"
    /\ \E ok \in BOOLEAN :
         /\ ok => ~cancelled
         /\ log' = Append(log, Entry("remove", IF ok THEN "ok" ELSE "err"))
    /\ imageExists' = FALSE
    /\ pc' = "build"
    /\ UNCHANGED <<cfgVars, termVars, cstate, exitStatus, written, ioVars,
                   sigVars, waitVars, cancelled, retVars,
                   runVars, reqImage, reqVars>>

\* BuildImage that leaves cfg.Image as configured after the build.
BuildImage_KeepImage ==
    /\ Alive /\ pc = "build"
    /\ \E ok \in BOOLEAN :
         /\ ok => ~cancelled
         /\ log' = Append(log, Entry("build", IF ok THEN "ok" ELSE "err"))
         /\ IF ok
            THEN /\ pc' = "ports"
                 /\ UNCHANGED retVars
            ELSE ReturnWith(LocalFailure, "build")
    /\ UNCHANGED <<cfgVars, termVars, imageExists, cstate, exitStatus,
                   written, ioVars, sigVars, waitVars, cancelled,
                   runVars, reqImage, reqVars>>

\* Lines 653-660: r.BuildImage; a failure is fatal.
BuildImage ==
    /\ Alive /\ pc = "build"
    /\ \E ok \in BOOLEAN :
         /\ ok => ~cancelled
         /\ log' = Append(log, Entry("build", IF ok THEN "ok" ELSE "err"))
         /\ IF ok
            THEN /\ cfg' = [cfg EXCEPT !.Image = BuiltImage]
                 /\ pc' = "ports"
                 /\ UNCHANGED retVars
            ELSE /\ ReturnWith(LocalFailure, "build")
                 /\ UNCHANGED cfg
    /\ UNCHANGED <<upgrade, host, termVars, imageExists, cstate, exitStatus,
                   written, ioVars, sigVars, waitVars, cancelled,
                   runVars, reqImage, reqVars>>

\* Lines 690-733: the creation request. Tty is isTerminal(); a port mapping
\* that does not parse is fatal.
BuildRequest ==
    /\ Alive /\ pc = "ports"
    /\ tty' = isTerminal
    /\ reqImage' = cfg.Image
    /\ \E portsOk \in BOOLEAN :
         IF portsOk
         THEN /\ pc' = "eagerpull"
              /\ UNCHANGED retVars
         ELSE ReturnWith(LocalFailure, "ports")
    /\ UNCHANGED <<cfgVars, termMode, oldTermState, engineVars, log, ioVars,
                   sigVars, waitVars, cancelled, runVars, reqVars>>

\* Lines 737-743: with the upgrade flag and no inline Dockerfile, pull
\* first; a failure is only warned about.
EagerPull ==
    /\ Alive /\ pc = "eagerpull"
    /\ IF upgrade /\ ~cfg.Build
       THEN \E ok \in BOOLEAN :
              /\ ok => ~cancelled
              /\ log' = Append(log, Entry("eagerpull",
                                          IF ok THEN "ok" ELSE "err"))
       ELSE UNCHANGED log
    /\ pc' = "create"
    /\ UNCHANGED <<cfgVars, termVars, imageExists, cstate, exitStatus,
                   written, ioVars, sigVars, waitVars, cancelled, retVars,
                   runVars, reqImage, reqVars>>

(* --------------------------------- create, pull on "No such image", retry *)
\* What the engine answers to ContainerCreate: the container, "No such
\* image" when the image is not in its store, or another error.
CreateAnswers ==
    IF cancelled THEN {"other"} ELSE {"ok", "noimage", "other"}

\* Lines 745-761, first attempt.
CreateContainer ==
    /\ Alive /\ pc = "create"
    /\ \E res \in CreateAnswers :
         /\ log' = Append(log, Entry("create", res))
         /\ IF res = "ok"
            THEN /\ cstate' = "created"
                 /\ pc' = "attach"
                 /\ UNCHANGED retVars
            ELSE IF res = "noimage"
            THEN /\ pc' = "pull"
                 /\ UNCHANGED <<cstate, retVars>>
            ELSE /\ ReturnWith(LocalFailure, "create")
                 /\ UNCHANGED cstate
    /\ UNCHANGED <<cfgVars, termVars, imageExists, exitStatus,
                   written, ioVars, sigVars, waitVars, cancelled,
                   runVars, reqImage, reqVars>>

\* Lines 749-752: r.PullImage after "No such image"; a failure is fatal.
PullMissing ==
    /\ Alive /\ pc = "pull"
    /\ \E ok \in BOOLEAN :
         /\ ok => ~cancelled
         /\ log' = Append(log, Entry("pull", IF ok THEN "ok" ELSE "err"))
         /\ IF ok
            THEN /\ pc' = "retry"
                 /\ UNCHANGED retVars
            ELSE ReturnWith(LocalFailure, "pull")
    /\ UNCHANGED <<cfgVars, termVars, imageExists, cstate, exitStatus,
                   written, ioVars, sigVars, waitVars, cancelled,
                   runVars, reqImage, reqVars>>

\* RetryCreate that pulls again whenever the image is still missing.
RetryCreate_Again ==
    /\ Alive /\ pc = "retry"
    /\ \E res \in CreateAnswers :
         /\ log' = Append(log, Entry("create", res))
         /\ IF res = "ok"
            THEN /\ cstate' = "created"
                 /\ pc' = "attach"
                 /\ UNCHANGED retVars
            ELSE IF res = "noimage"
            THEN /\ pc' = "pull"
                 /\ UNCHANGED <<cstate, retVars>>
            ELSE /\ ReturnWith(LocalFailure, "create")
                 /\ UNCHANGED cstate
    /\ UNCHANGED <<cfgVars, termVars, imageExists, exitStatus,
                   written, ioVars, sigVars, waitVars, cancelled,
                   runVars, reqImage, reqVars>>

\* Lines 753-757: the one retry; any failure is fatal.
RetryCreate ==
    /\ Alive /\ pc = "retry"
    /\ \E res \in CreateAnswers :
         /\ log' = Append(log, Entry("create", res))
         /\ IF res = "ok"
            THEN /\ cstate' = "created"
                 /\ pc' = "attach"
                 /\ UNCHANGED retVars
            ELSE /\ ReturnWith(LocalFailure, "create")
                 /\ UNCHANGED cstate
    /\ UNCHANGED <<cfgVars, termVars, imageExists, exitStatus,
                   written, ioVars, sigVars, waitVars, cancelled,
                   runVars, reqImage, reqVars>>

(* ----------------------------------------------------- attach, then start *)
\* AttachContainer with the stdin copy launched as soon as the stream is
\* open, before the container is started.
AttachContainer_LaunchEarly ==
    /\ Alive /\ pc = "attach"
    /\ \E ok \in BOOLEAN :
         /\ ok => ~cancelled
         /\ log' = Append(log, Entry("attach", IF ok THEN "ok" ELSE "err"))
         /\ IF ok
            THEN /\ conn' = "open"
                 /\ stdinPc' = "copying"
                 /\ pc' = "start"
                 /\ UNCHANGED retVars
            ELSE /\ ReturnWith(LocalFailure, "attach")
                 /\ UNCHANGED <<conn, stdinPc>>
    /\ UNCHANGED <<cfgVars, termVars, engineVars, closeWrites, copied,
                   outPc, errChan, sigVars, waitVars, cancelled,
                   runVars, reqImage, reqVars>>

\* Lines 771-775: ContainerAttach; on success hijackedResp.Close is deferred.
AttachContainer ==
    /\ Alive /\ pc = "attach"
    /\ \E ok \in BOOLEAN :
         /\ ok => ~cancelled
         /\ log' = Append(log, Entry("attach", IF ok THEN "ok" ELSE "err"))
         /\ IF ok
            THEN /\ conn' = "open"
                 /\ pc' = "start"
                 /\ UNCHANGED retVars
            ELSE /\ ReturnWith(LocalFailure, "attach")
                 /\ UNCHANGED conn
    /\ UNCHANGED <<cfgVars, termVars, engineVars, closeWrites, copied,
                   stdinPc, outPc, errChan, sigVars, waitVars, cancelled,
                   runVars, reqImage, reqVars>>

\* Lines 777-780: ContainerStart; on failure the deferred Close runs.
StartContainer ==
    /\ Alive /\ pc = "start"
    /\ \E ok \in BOOLEAN :
         /\ ok => ~cancelled
         /\ log' = Append(log, Entry("start", IF ok THEN "ok" ELSE "err"))
         /\ IF ok
            THEN /\ cstate' = "running"
                 /\ pc' = "term"
                 /\ UNCHANGED <<conn, retVars>>
            ELSE /\ ReturnWith(LocalFailure, "start")
                 /\ conn' = "closed"
                 /\ UNCHANGED cstate
    /\ UNCHANGED <<cfgVars, termVars, imageExists, exitStatus,
                   written, closeWrites, copied, stdinPc, outPc, errChan,
                   sigVars, waitVars, cancelled,
                   runVars, reqImage, reqVars>>

(* ------------------------------------------ terminal, utils/terminal.go *)
\* SetupTerminal: nothing when stdin is no terminal; otherwise save the
\* state and make the terminal raw (made == FALSE: GetState or MakeRaw
\* failed, the terminal is as it was and nil is returned).
SetupTerminal(made) ==
    IF ~host.stdinTty \/ ~made
    THEN [mode |-> termMode, old |-> "nil"]
    ELSE [mode |-> "raw", old |-> termMode]

\* RestoreTerminal that restores nothing.
RestoreTerminal_Skip(oldState) == termMode

\* RestoreTerminal(oldState): term.Restore when oldState is not nil.
RestoreTerminal(oldState) ==
    IF oldState # "nil" THEN oldState ELSE termMode

\* Lines 782-786: raw mode for a TTY, with RestoreTerminal deferred.
EnterRawMode ==
    /\ Alive /\ pc = "term"
    /\ IF tty
       THEN \E made \in BOOLEAN :
              /\ termMode' = SetupTerminal(made).mode
              /\ oldTermState' = SetupTerminal(made).old
       ELSE UNCHANGED <<termMode, oldTermState>>
    /\ pc' = "signals"
    /\ UNCHANGED <<cfgVars, tty, engineVars, log, ioVars, sigVars, waitVars,
                   cancelled, retVars,
                   runVars, reqImage, reqVars>>

(* ---------------------------------------- signal relay, utils/signals.go *)
\* signal.Notify(sigChan, ...): the subscriptions after SetupSignalHandler.
SetupSignalHandler == notify \cup {RelayChan}

\* signal.Stop(make(chan os.Signal, 1)): the subscriptions after
\* CleanupSignalHandler, which stops a channel it has just made.
CleanupSignalHandler == notify \ {FreshChan}

\* Lines 788-790: install the relay; its goroutine starts receiving.
InstallRelay ==
    /\ Alive /\ pc = "signals"
    /\ notify' = SetupSignalHandler
    /\ relayPc' = "recv"
    /\ pc' = "gostdin"
    /\ UNCHANGED <<cfgVars, termVars, engineVars, log, ioVars, sigChan,
                   killErr, received, kills, waitVars, cancelled, retVars,
                   runVars, reqImage, reqVars>>

\* The process receives a signal. Subscribed: the runtime hands it to the
\* channel without blocking, so it is lost when the buffer is full.
\* Not subscribed: the default action ends the process.
HostSignal ==
    /\ Alive
    /\ \E sig \in Signals :
         IF RelayChan \in notify
         THEN /\ Len(received) < SignalBudget
              /\ received' = Append(received, sig)
              /\ sigChan' = IF Len(sigChan) < SigChanCap
                            THEN Append(sigChan, sig)
                            ELSE sigChan
              /\ UNCHANGED <<procState, procExit>>
         ELSE /\ procState' = "killed"
              /\ UNCHANGED <<received, sigChan, procExit>>
    /\ UNCHANGED <<pc, cfgVars, termVars, engineVars, log, ioVars, notify,
                   relayPc, killErr, kills, waitVars, cancelled, retCode,
                   retErr,
                   runVars, reqImage, reqVars>>

\* for sig := range sigChan: take a signal and issue ContainerKill with it.
RelayReceive ==
    /\ Alive /\ relayPc = "recv" /\ sigChan # <<>>
    /\ sigChan' = Tail(sigChan)
    /\ kills' = Append(kills, Head(sigChan))
    /\ relayPc' = "kill"
    /\ UNCHANGED <<pc, cfgVars, termVars, engineVars, log, ioVars, notify,
                   killErr, received, waitVars, cancelled, retVars,
                   runVars, reqImage, reqVars>>

\* What the engine answers to ContainerKill.
KillAnswers ==
    IF cancelled THEN {"err"}
    ELSE IF cstate = "running" THEN {"nil", "err"} ELSE {"notfound"}

\* RelayKillDone that treats a failed kill as fatal (logs it and exits).
RelayKillDone_Fatal ==
    /\ Alive /\ relayPc = "kill"
    /\ \E res \in KillAnswers :
         /\ killErr' = res
         /\ IF res = "nil"
            THEN UNCHANGED <<procState, procExit>>
            ELSE procState' = "exited" /\ procExit' = LocalFailure
    /\ relayPc' = "recv"
    /\ UNCHANGED <<pc, cfgVars, termVars, engineVars, log, ioVars, notify,
                   sigChan, received, kills, waitVars, cancelled, retCode,
                   retErr,
                   runVars, reqImage, reqVars>>

\* ContainerKill returns; an error is at most logged, and the loop goes on.
RelayKillDone ==
    /\ Alive /\ relayPc = "kill"
    /\ \E res \in KillAnswers : killErr' = res
    /\ relayPc' = "recv"
    /\ UNCHANGED <<pc, cfgVars, termVars, engineVars, log, ioVars, notify,
                   sigChan, received, kills, waitVars, cancelled, retVars,
                   runVars, reqImage, reqVars>>

(* ------------------------------------------------ I/O copy, lines 792-815 *)
\* go func() { ... io.Copy(hijackedResp.Conn, stdin) ... }()
GoStdinCopy ==
    /\ Alive /\ pc = "gostdin"
    /\ stdinPc' = "copying"
    /\ pc' = "goout"
    /\ UNCHANGED <<cfgVars, termVars, engineVars, log, conn, closeWrites,
                   copied, outPc, errChan, sigVars, waitVars, cancelled,
                   retVars,
                   runVars, reqImage, reqVars>>

\* go func() { ... io.Copy / stdcopy.StdCopy ... }()
GoOutputCopy ==
    /\ Alive /\ pc = "goout"
    /\ outPc' = "copying"
    /\ pc' = "callwait"
    /\ UNCHANGED <<cfgVars, termVars, engineVars, log, conn, closeWrites,
                   copied, stdinPc, errChan, sigVars, waitVars, cancelled,
                   retVars,
                   runVars, reqImage, reqVars>>

\* The error a copy ends with: nil at end of input, an error once the
\* connection has been closed under it.
CopyResult == IF conn = "open" THEN "nil" ELSE "err"

\* StdinCopyEnd without the deferred CloseWrite.
StdinCopyEnd_NoClose ==
    /\ Alive /\ stdinPc = "copying"
    /\ Len(errChan) < ErrChanCap
    /\ errChan' = Append(errChan, CopyResult)
    /\ closeWrites' = closeWrites
    /\ stdinPc' = "done"
    /\ UNCHANGED <<pc, cfgVars, termVars, engineVars, log, conn, copied,
                   outPc, sigVars, waitVars, cancelled, retVars,
                   runVars, reqImage, reqVars>>

\* The stdin copy ends (end of input, or the connection is gone): it sends
\* its result on errChan, and the deferred CloseWrite runs.
StdinCopyEnd ==
    /\ Alive /\ stdinPc = "copying"
    /\ Len(errChan) < ErrChanCap
    /\ errChan' = Append(errChan, CopyResult)
    /\ closeWrites' = closeWrites + 1
    /\ stdinPc' = "done"
    /\ UNCHANGED <<pc, cfgVars, termVars, engineVars, log, conn, copied,
                   outPc, sigVars, waitVars, cancelled, retVars,
                   runVars, reqImage, reqVars>>

\* The output copy moves one chunk from the stream to host stdout/stderr.
OutputCopyChunk ==
    /\ Alive /\ outPc = "copying"
    /\ conn = "open"
    /\ copied < written
    /\ copied' = copied + 1
    /\ UNCHANGED <<pc, cfgVars, termVars, engineVars, log, conn, closeWrites,
                   stdinPc, outPc, errChan, sigVars, waitVars, cancelled,
                   retVars,
                   runVars, reqImage, reqVars>>

\* OutputCopyEnd that sends one result for stdout and one for stderr.
OutputCopyEnd_SendPerStream ==
    /\ Alive /\ outPc = "copying"
    /\ copied = written \/ conn # "open"
    /\ Len(errChan) < ErrChanCap
    /\ errChan' = errChan \o <<CopyResult, CopyResult>>
    /\ outPc' = "done"
    /\ UNCHANGED <<pc, cfgVars, termVars, engineVars, log, conn, closeWrites,
                   copied, stdinPc, sigVars, waitVars, cancelled, retVars,
                   runVars, reqImage, reqVars>>

\* The output copy ends: the stream is drained and closed by the container
\* side, or the connection is gone; it sends its result on errChan.
OutputCopyEnd ==
    /\ Alive /\ outPc = "copying"
    /\ copied = written \/ conn # "open"
    /\ Len(errChan) < ErrChanCap
    /\ errChan' = Append(errChan, CopyResult)
    /\ outPc' = "done"
    /\ UNCHANGED <<pc, cfgVars, termVars, engineVars, log, conn, closeWrites,
                   copied, stdinPc, sigVars, waitVars, cancelled, retVars,
                   runVars, reqImage, reqVars>>

(* ------------------------------------------------ the container (engine) *)
\* The running container writes a chunk of output to the attached stream.
ContainerWrite ==
    /\ cstate = "running"
    /\ written < OutputBudget
    /\ written' = written + 1
    /\ UNCHANGED <<pc, cfgVars, termVars, imageExists, cstate,
                   exitStatus, log, ioVars, sigVars, waitVars, cancelled,
                   retVars,
                   runVars, reqImage, reqVars>>

\* The running container exits with a status code.
ContainerExit ==
    /\ cstate = "running"
    /\ \E code \in StatusCodes : exitStatus' = code
    /\ cstate' = "exited"
    /\ UNCHANGED <<pc, cfgVars, termVars, imageExists, written, log,
                   ioVars, sigVars, waitVars, cancelled, retVars,
                   runVars, reqImage, reqVars>>

(* ----------------------------------------------- exit wait, lines 817-832 *)
\* r.client.ContainerWait(ctx, resp.ID, WaitConditionNotRunning)
CallContainerWait ==
    /\ Alive /\ pc = "callwait"
    /\ waitPc' = "pending"
    /\ pc' = "waiting"
    /\ log' = Append(log, Entry("wait", "ok"))
    /\ UNCHANGED <<cfgVars, termVars, engineVars, ioVars, sigVars, statusCh,
                   errCh, recv, cancelled, retVars,
                   runVars, reqImage, reqVars>>

\* The engine reports the exited container's status on statusCh.
WaitDeliverStatus ==
    /\ Alive /\ waitPc = "pending"
    /\ cstate = "exited" /\ ~cancelled
    /\ statusCh' = <<exitStatus>>
    /\ waitPc' = "done"
    /\ UNCHANGED <<pc, cfgVars, termVars, engineVars, log, ioVars, sigVars,
                   errCh, recv, cancelled, retVars,
                   runVars, reqImage, reqVars>>

\* The wait request fails (control channel error, cancelled context): the
\* engine client sends the error, never a nil, on errCh.
WaitDeliverError ==
    /\ Alive /\ waitPc = "pending"
    /\ errCh' = <<"err">>
    /\ waitPc' = "done"
    /\ UNCHANGED <<pc, cfgVars, termVars, engineVars, log, ioVars, sigVars,
                   statusCh, recv, cancelled, retVars,
                   runVars, reqImage, reqVars>>

\* The caller's context is cancelled while ExecuteCommand runs. (runCommand
\* passes context.Background(); the Runtime interface takes any context.)
Cancel ==
    /\ Alive /\ pc \in ExecPcs
    /\ ~cancelled
    /\ cancelled' = TRUE
    /\ UNCHANGED <<pc, cfgVars, termVars, engineVars, log, ioVars, sigVars,
                   waitVars, retVars,
                   runVars, reqImage, reqVars>>

\* The deferred calls of a return from the select, last registered first:
\* CleanupSignalHandler, RestoreTerminal (registered for a TTY only),
\* hijackedResp.Close.
RunDeferred ==
    /\ notify' = CleanupSignalHandler
    /\ termMode' = IF tty THEN RestoreTerminal(oldTermState) ELSE termMode
    /\ conn' = "closed"

\* SelectWaitError that receives from errChan, the copy tasks' channel.
SelectWaitError_OnCopy ==
    /\ Alive /\ pc = "waiting"
    /\ errChan # <<>>
    /\ recv' = [kind |-> "error", code |-> 0]
    /\ errChan' = Tail(errChan)
    /\ IF Head(errChan) # "nil"
       THEN ReturnWith(LocalFailure, "wait")
       ELSE ReturnWith(0, "nil")
    /\ RunDeferred
    /\ UNCHANGED <<cfgVars, tty, oldTermState, engineVars, log, closeWrites,
                   copied, stdinPc, outPc, errCh, sigChan, relayPc,
                   killErr, received, kills, waitPc, statusCh, cancelled,
                   runVars, reqImage, reqVars>>

\* SelectWaitError that drops the error and falls through to return 0, nil.
SelectWaitError_Swallow ==
    /\ Alive /\ pc = "waiting"
    /\ errCh # <<>>
    /\ recv' = [kind |-> "error", code |-> 0]
    /\ errCh' = <<>>
    /\ ReturnWith(0, "nil")
    /\ RunDeferred
    /\ UNCHANGED <<cfgVars, tty, oldTermState, engineVars, log, closeWrites,
                   copied, stdinPc, outPc, errChan, sigChan, relayPc,
                   killErr, received, kills, waitPc, statusCh,
                   cancelled,
                   runVars, reqImage, reqVars>>

\* case err := <-errCh: a non-nil error returns 1 with it; a nil one falls
\* through to the final return 0, nil.
SelectWaitError ==
    /\ Alive /\ pc = "waiting"
    /\ errCh # <<>>
    /\ recv' = [kind |-> "error", code |-> 0]
    /\ errCh' = <<>>
    /\ IF Head(errCh) # "nil"
       THEN ReturnWith(LocalFailure, "wait")
       ELSE ReturnWith(0, "nil")
    /\ RunDeferred
    /\ UNCHANGED <<cfgVars, tty, oldTermState, engineVars, log, closeWrites,
                   copied, stdinPc, outPc, errChan, sigChan, relayPc,
                   killErr, received, kills, waitPc, statusCh,
                   cancelled,
                   runVars, reqImage, reqVars>>

\* SelectStatus that is taken only after both copy tasks have reported.
SelectStatus_AfterCopies ==
    /\ Alive /\ pc = "waiting"
    /\ statusCh # <<>>
    /\ Len(errChan) = ErrChanCap
    /\ recv' = [kind |-> "status", code |-> Head(statusCh)]
    /\ statusCh' = <<>>
    /\ ReturnWith(Head(statusCh), "nil")
    /\ RunDeferred
    /\ UNCHANGED <<cfgVars, tty, oldTermState, engineVars, log, closeWrites,
                   copied, stdinPc, outPc, errChan, sigChan, relayPc,
                   killErr, received, kills, waitPc, errCh, cancelled,
                   runVars, reqImage, reqVars>>

\* case status := <-statusCh
SelectStatus ==
    /\ Alive /\ pc = "waiting"
    /\ statusCh # <<>>
    /\ recv' = [kind |-> "status", code |-> Head(statusCh)]
    /\ statusCh' = <<>>
    /\ ReturnWith(Head(statusCh), "nil")
    /\ RunDeferred
    /\ UNCHANGED <<cfgVars, tty, oldTermState, engineVars, log, closeWrites,
                   copied, stdinPc, outPc, errChan, sigChan, relayPc,
                   killErr, received, kills, waitPc, errCh,
                   cancelled,
                   runVars, reqImage, reqVars>>

\* SelectCancelled that leaves the select and falls through to return 0, nil.
SelectCancelled_Zero ==
    /\ Alive /\ pc = "waiting"
    /\ cancelled
    /\ recv' = [kind |-> "cancel", code |-> 0]
    /\ ReturnWith(0, "nil")
    /\ RunDeferred
    /\ UNCHANGED <<cfgVars, tty, oldTermState, engineVars, log, closeWrites,
                   copied, stdinPc, outPc, errChan, sigChan, relayPc,
                   killErr, received, kills, waitPc, statusCh,
                   errCh, cancelled,
                   runVars, reqImage, reqVars>>

\* case <-ctx.Done(): return 1, ctx.Err()
SelectCancelled ==
    /\ Alive /\ pc = "waiting"
    /\ cancelled
    /\ recv' = [kind |-> "cancel", code |-> 0]
    /\ ReturnWith(LocalFailure, "ctx")
    /\ RunDeferred
    /\ UNCHANGED <<cfgVars, tty, oldTermState, engineVars, log, closeWrites,
                   copied, stdinPc, outPc, errChan, sigChan, relayPc,
                   killErr, received, kills, waitPc, statusCh,
                   errCh, cancelled,
                   runVars, reqImage, reqVars>>

(* ------------------------------ PodmanRuntime.ExecuteCommand, lines 34-132 *)
\* PodmanResolve that builds only when the rebuild flag is set.
PodmanResolve_Cached ==
    /\ Alive /\ pc = "p_resolve"
    /\ pc' = IF cfg.Build
             THEN (IF upgrade THEN "p_remove" ELSE "p_prepare")
             ELSE (IF upgrade THEN "p_pull" ELSE "p_prepare")
    /\ UNCHANGED <<cfgVars, termVars, engineVars, log, ioVars, sigVars,
                   waitVars, cancelled, retVars, runVars, reqImage, reqVars>>

\* Lines 36, 39, 53: the branch image resolution takes.
PodmanResolve ==
    /\ Alive /\ pc = "p_resolve"
    /\ pc' = IF cfg.Build
             THEN (IF upgrade THEN "p_remove" ELSE "p_build")
             ELSE (IF upgrade THEN "p_pull" ELSE "p_prepare")
    /\ UNCHANGED <<cfgVars, termVars, engineVars, log, ioVars, sigVars,
                   waitVars, cancelled, retVars, runVars, reqImage, reqVars>>

\* Lines 39-47: podman rmi; a failure is only logged.
PodmanRemoveImage ==
    /\ Alive /\ pc = "p_remove"
    /\ \E ok \in BOOLEAN :
         /\ ok => ~cancelled
         /\ log' = Append(log, Entry("remove", IF ok THEN "ok" ELSE "err"))
    /\ pc' = "p_build"
    /\ UNCHANGED <<cfgVars, termVars, engineVars, ioVars, sigVars,
                   waitVars, cancelled, retVars, runVars, reqImage, reqVars>>

\* PodmanBuildImage that goes on with the configured image when the build
\* fails.
PodmanBuildImage_Continue ==
    /\ Alive /\ pc = "p_build"
    /\ \E ok \in BOOLEAN :
         /\ ok => ~cancelled
         /\ log' = Append(log, Entry("build", IF ok THEN "ok" ELSE "err"))
         /\ cfg' = IF ok THEN [cfg EXCEPT !.Image = ImageName(Command)]
                         ELSE cfg
    /\ pc' = "p_prepare"
    /\ UNCHANGED <<upgrade, host, termVars, engineVars, ioVars, sigVars,
                   waitVars, cancelled, retVars, runVars, reqImage, reqVars>>

\* Lines 49-52: r.BuildImage; a failure is fatal.
PodmanBuildImage ==
    /\ Alive /\ pc = "p_build"
    /\ \E ok \in BOOLEAN :
         /\ ok => ~cancelled
         /\ log' = Append(log, Entry("build", IF ok THEN "ok" ELSE "err"))
         /\ IF ok
            THEN /\ cfg' = [cfg EXCEPT !.Image = ImageName(Command)]
                 /\ pc' = "p_prepare"
                 /\ UNCHANGED retVars
            ELSE /\ ReturnWith(LocalFailure, "build")
                 /\ UNCHANGED cfg
    /\ UNCHANGED <<upgrade, host, termVars, engineVars, ioVars, sigVars,
                   waitVars, cancelled, runVars, reqImage, reqVars>>

\* PodmanPullImage that aborts the invocation when the pull fails.
PodmanPullImage_Fatal ==
    /\ Alive /\ pc = "p_pull"
    /\ \E ok \in BOOLEAN :
         /\ ok => ~cancelled
         /\ log' = Append(log, Entry("eagerpull", IF ok THEN "ok" ELSE "err"))
         /\ IF ok
            THEN /\ pc' = "p_prepare"
                 /\ UNCHANGED retVars
            ELSE ReturnWith(LocalFailure, "pull")
    /\ UNCHANGED <<cfgVars, termVars, engineVars, ioVars, sigVars,
                   waitVars, cancelled, runVars, reqImage, reqVars>>

\* Lines 53-59: r.PullImage(cfg.Image); a failure is only warned about.
PodmanPullImage ==
    /\ Alive /\ pc = "p_pull"
    /\ \E ok \in BOOLEAN :
         /\ ok => ~cancelled
         /\ log' = Append(log, Entry("eagerpull", IF ok THEN "ok" ELSE "err"))
    /\ pc' = "p_prepare"
    /\ UNCHANGED <<cfgVars, termVars, engineVars, ioVars, sigVars,
                   waitVars, cancelled, retVars, runVars, reqImage, reqVars>>

\* Lines 61-114: the arguments of podman run ("-it" always, the image), and
\* raw mode with RestoreTerminal deferred.
PodmanPrepare ==
    /\ Alive /\ pc = "p_prepare"
    /\ tty' = TRUE
    /\ reqImage' = cfg.Image
    /\ \E made \in BOOLEAN :
         /\ termMode' = SetupTerminal(made).mode
         /\ oldTermState' = SetupTerminal(made).old
    /\ pc' = "p_run"
    /\ UNCHANGED <<cfgVars, engineVars, log, ioVars, sigVars, waitVars,
                   cancelled, retVars, runVars, reqVars>>

\* RunResult that reports a child's non-zero code as a failure to run.
RunResult_Flag(launched, code) ==
    IF ~launched \/ code # 0 THEN [code |-> LocalFailure, err |-> "run"]
    ELSE [code |-> 0, err |-> "nil"]

\* Lines 123-131, what ExecuteCommand returns for the outcome of cmd.Run:
\* an ExitError gives the child's code and no error, any other error (the
\* child was not started) gives 1 and the error, nil gives 0.
RunResult(launched, code) ==
    IF launched /\ code # 0 THEN [code |-> code, err |-> "nil"]
    ELSE IF ~launched THEN [code |-> LocalFailure, err |-> "run"]
    ELSE [code |-> 0, err |-> "nil"]

\* Lines 117-123, 128: cmd.Run starts the child, or fails to (return 1, err
\* with the deferred RestoreTerminal).
PodmanRun ==
    /\ Alive /\ pc = "p_run"
    /\ \E launched \in BOOLEAN :
         /\ launched => ~cancelled
         /\ log' = Append(log, Entry("run", IF launched THEN "ok" ELSE "err"))
         /\ IF launched
            THEN /\ pc' = "p_wait"
                 /\ UNCHANGED <<termMode, retVars>>
            ELSE /\ ReturnWith(RunResult(FALSE, 0).code,
                               RunResult(FALSE, 0).err)
                 /\ termMode' = RestoreTerminal(oldTermState)
    /\ UNCHANGED <<cfgVars, tty, oldTermState, engineVars, ioVars, sigVars,
                   waitVars, cancelled, runVars, reqImage, reqVars>>

\* exitErr.ExitCode() of a child that was killed (the context was cancelled).
KilledCode == -1

\* The codes the child can end with: the container's status (podman's own
\* failures are non-zero codes too), or killed once the context is cancelled.
ChildCodes == StatusCodes \cup (IF cancelled THEN {KilledCode} ELSE {})

\* Lines 123-131: cmd.Run returns once the child has ended with a code
\* (kept in exitStatus); the deferred RestoreTerminal runs.
PodmanWait ==
    /\ Alive /\ pc = "p_wait"
    /\ \E code \in ChildCodes :
         /\ exitStatus' = code
         /\ ReturnWith(RunResult(TRUE, code).code, RunResult(TRUE, code).err)
    /\ termMode' = RestoreTerminal(oldTermState)
    /\ UNCHANGED <<cfgVars, tty, oldTermState, imageExists, cstate, written,
                   log, ioVars, sigVars, waitVars, cancelled, runVars,
                   reqImage, reqVars>>

(* --------------------------------------------- runCommand, run.go:99-114 *)
\* ExitCodeOf that reports every failing status as 1.
ExitCodeOf_Flag(code, err) ==
    IF err # "nil" \/ code # 0 THEN LocalFailure ELSE code

\* The code runCommand exits with: 1 on an execution error, else exitCode.
ExitCodeOf(code, err) == IF err # "nil" THEN LocalFailure ELSE code

\* VersionStore.UpdateCommandVersion: the store's entry afterwards
\* (saved == FALSE: hashing or saving failed, which is only warned about).
UpdateCommandVersion(saved) == IF saved THEN "same" ELSE stored

\* RunExit that records the version whatever status the container reported.
RunExit_UpdateAnyStatus ==
    /\ Alive /\ pc = "returned"
    /\ IF retErr = "nil" /\ (commandChanged \/ upgrade)
       THEN \E saved \in BOOLEAN : stored' = UpdateCommandVersion(saved)
       ELSE stored' = stored
    /\ procExit' = ExitCodeOf(retCode, retErr)
    /\ procState' = "exited"
    /\ pc' = "exited"
    /\ UNCHANGED <<cfgVars, termVars, engineVars, log, ioVars, sigVars,
                   waitVars, cancelled, retCode, retErr,
                   runtime, force, commandChanged, reqImage, reqVars>>

\* Lines 100-114: on an error exit with 1; else record the command's
\* version after a run that ended with 0 and had a change or the flag, and
\* exit with the code. os.Exit ends the process, its goroutines with it.
RunExit ==
    /\ Alive /\ pc = "returned"
    /\ IF retErr = "nil" /\ retCode = 0 /\ (commandChanged \/ upgrade)
       THEN \E saved \in BOOLEAN : stored' = UpdateCommandVersion(saved)
       ELSE stored' = stored
    /\ procExit' = ExitCodeOf(retCode, retErr)
    /\ procState' = "exited"
    /\ pc' = "exited"
    /\ UNCHANGED <<cfgVars, termVars, engineVars, log, ioVars, sigVars,
                   waitVars, cancelled, retCode, retErr,
                   runtime, force, commandChanged, reqImage, reqVars>>

Next ==
    \/ CheckCommandVersion
    \/ RunIsAvailable
    \/ InspectImage
    \/ RemoveImage
    \/ BuildImage
    \/ BuildRequest
    \/ EagerPull
    \/ CreateContainer
    \/ PullMissing
    \/ RetryCreate
    \/ AttachContainer
    \/ StartContainer
    \/ EnterRawMode
    \/ InstallRelay
    \/ HostSignal
    \/ RelayReceive
    \/ RelayKillDone
    \/ GoStdinCopy
    \/ GoOutputCopy
    \/ StdinCopyEnd
    \/ OutputCopyChunk
    \/ OutputCopyEnd
    \/ ContainerWrite
    \/ ContainerExit
    \/ CallContainerWait
    \/ WaitDeliverStatus
    \/ WaitDeliverError
    \/ Cancel
    \/ SelectWaitError
    \/ SelectStatus
    \/ SelectCancelled
    \/ PodmanResolve
    \/ PodmanRemoveImage
    \/ PodmanBuildImage
    \/ PodmanPullImage
    \/ PodmanPrepare
    \/ PodmanRun
    \/ PodmanWait
    \/ RunExit

Spec == Init /\ [][Next]_vars

\* The controller's own goroutine is scheduled: its straight-line steps
\* after the start are taken, and a select with a ready case is taken.
\* Nothing is assumed of the engine, the container, the host's signals or
\* the copy tasks, which may stay blocked for ever.
FairSpec ==
    /\ Spec
    /\ WF_vars(EnterRawMode \/ InstallRelay \/ GoStdinCopy \/ GoOutputCopy
                 \/ CallContainerWait)
    /\ WF_vars(SelectStatus \/ SelectWaitError \/ SelectCancelled)

(* =================================================== request building *)
\* expandVolumePath that returns every volume as it is declared.
expandVolumePath_Verbatim(volume, env, cwd) == volume

\* Loader.expandVolumePath, config: "." as source becomes the working
\* directory, any other source has its references expanded; a string with
\* fewer than two parts is returned as it is.
expandVolumePath(volume, env, cwd) ==
    LET parts == SplitN(volume, VolumeParts)
    IN  IF Len(parts) < 2 THEN volume
        ELSE LET source == IF parts[1] = <<".">> THEN cwd
                           ELSE ExpandEnv(parts[1], env)
             IN  Join([parts EXCEPT ![1] = source])

\* ContainerCmd whose override replaces the user's arguments.
ContainerCmd_OverrideOnly(command, args) ==
    IF command # <<>> THEN <<command>> ELSE args

\* Lines 663-670 (Docker) and 92-99 (Podman): the override followed by the
\* arguments, the arguments alone, or nothing.
ContainerCmd(command, args) ==
    IF command # <<>> THEN <<command>> \o args
    ELSE IF Len(args) > 0 THEN args
    ELSE <<>>

\* DockerEnv that passes every declared name, empty values included.
DockerEnv_PassEmpty(names, env) ==
    [i \in DOMAIN names |-> <<names[i], "=">> \o Getenv(env, names[i])]

\* Lines 677-683: name=value for every declared name with a non-empty value.
RECURSIVE DockerEnv(_, _)
DockerEnv(names, env) ==
    IF names = <<>> THEN <<>>
    ELSE (IF Getenv(env, Head(names)) # <<>>
          THEN << <<Head(names), "=">> \o Getenv(env, Head(names)) >>
          ELSE <<>>) \o DockerEnv(Tail(names), env)

\* DockerBinds that mounts the working directory after cfg.Volumes.
DockerBinds_WorkspaceLast(cwd, volumes) ==
    volumes \o << cwd \o <<Sep, "/workspace">> >>

\* Lines 685-688: the working directory at /workspace, then cfg.Volumes.
DockerBinds(cwd, volumes) == << cwd \o <<Sep, "/workspace">> >> \o volumes

\* nat.ParsePortSpec: one mapping per port of the range, or an error.
ParsePortSpec(spec) ==
    IF ~spec.valid THEN [err |-> TRUE, mappings |-> <<>>]
    ELSE [err |-> FALSE,
          mappings |->
            [i \in 1..(spec.chi - spec.clo + 1) |->
               [Port |-> [num |-> spec.clo + i - 1, proto |-> spec.proto],
                Binding |-> [HostIP |-> spec.ip,
                             HostPort |-> spec.hlo + i - 1]]]]

\* Lines 1017-1020: portBindings[m.Port] = []nat.PortBinding{m.Binding}
\* for every mapping of one port specification.
RECURSIVE PutMappings(_, _)
PutMappings(table, mappings) ==
    IF mappings = <<>> THEN table
    ELSE LET m == Head(mappings)
         IN  PutMappings([p \in DOMAIN table \cup {m.Port} |->
                            IF p = m.Port THEN <<m.Binding>> ELSE table[p]],
                         Tail(mappings))

\* parsePortMappings: the binding table and the exposed ports (the table's
\* keys), or an error at the first string that does not parse.
RECURSIVE ParseInto(_, _)
ParseInto(table, ports) ==
    IF ports = <<>>
    THEN [err |-> FALSE, bindings |-> table, exposed |-> DOMAIN table]
    ELSE LET r == ParsePortSpec(Head(ports))
         IN  IF r.err
             THEN [err |-> TRUE, bindings |-> <<>>, exposed |-> {}]
             ELSE ParseInto(PutMappings(table, r.mappings), Tail(ports))
parsePortMappings(ports) == ParseInto(<<>>, ports)

\* DockerRequest that publishes the ports on the host network too.
DockerRequest_PortsOnHost(in, volumes) ==
    LET usePorts == Len(in.Ports) > 0
        parsed == parsePortMappings(in.Ports)
    IN  [err |-> IF usePorts /\ parsed.err THEN "ports" ELSE "nil",
         Image |-> in.Image,
         Cmd |-> ContainerCmd(in.Command, in.Args),
         Env |-> DockerEnv(in.Environment, in.env),
         Binds |-> DockerBinds(in.cwd, volumes),
         WorkingDir |-> IF ~in.Build THEN <<"/workspace">> ELSE <<>>,
         NetworkMode |-> in.Network,
         PortBindings |-> IF usePorts /\ ~parsed.err THEN parsed.bindings
                                                    ELSE <<>>,
         ExposedPorts |-> IF usePorts /\ ~parsed.err THEN parsed.exposed
                                                    ELSE {}]

\* Lines 663-727: containerConfig and hostConfig; err is "ports" when the
\* port mappings do not parse (return 1 before the creation).
DockerRequest(in, volumes) ==
    LET usePorts == Len(in.Ports) > 0 /\ in.Network # <<"host">>
        parsed == parsePortMappings(in.Ports)
    IN  [err |-> IF usePorts /\ parsed.err THEN "ports" ELSE "nil",
         Image |-> in.Image,
         Cmd |-> ContainerCmd(in.Command, in.Args),
         Env |-> DockerEnv(in.Environment, in.env),
         Binds |-> DockerBinds(in.cwd, volumes),
         WorkingDir |-> IF ~in.Build THEN <<"/workspace">> ELSE <<>>,
         NetworkMode |-> in.Network,
         PortBindings |-> IF usePorts /\ ~parsed.err THEN parsed.bindings
                                                    ELSE <<>>,
         ExposedPorts |-> IF usePorts /\ ~parsed.err THEN parsed.exposed
                                                    ELSE {}]

\* flag x for every x of xs, in order.
RECURSIVE Flagged(_, _)
Flagged(flag, xs) ==
    IF xs = <<>> THEN <<>>
    ELSE <<flag, Head(xs)>> \o Flagged(flag, Tail(xs))

\* Lines 61-99: the arguments of podman: the options, the image, and the
\* command with its arguments.
PodmanArgs(in, volumes) ==
    [opts |-> << <<"run">>, <<"--rm">>, <<"-it">>,
                 <<"--network=", "host">>,
                 <<"--user=", "uid", Sep, "gid">>,
                 <<"-w">>, <<"/workspace">>,
                 <<"-v">>, in.cwd \o <<Sep, "/workspace">> >>
              \o Flagged(<<"-v">>, volumes)
              \o Flagged(<<"-e">>, DockerEnv(in.Environment, in.env)),
     image |-> in.Image,
     cmd |-> ContainerCmd(in.Command, in.Args)]

\* Every variable of a run.
runAll == <<pc, runVars, reqImage, cfgVars, termVars, engineVars, log, ioVars,
            sigVars, waitVars, cancelled, retVars, streamVars>>

\* No run is in progress.
RunIdle ==
    /\ pc = "off"
    /\ runtime = "docker" /\ force = FALSE /\ stored = "same"
    /\ commandChanged = FALSE /\ upgrade = FALSE /\ reqImage = <<>>
    /\ cfg = [Image |-> RegistryImage, Build |-> FALSE]
    /\ host = [stdinTty |-> TRUE, stdoutTty |-> TRUE, entryMode |-> "cooked"]
    /\ tty = FALSE /\ termMode = "cooked" /\ oldTermState = "nil"
    /\ imageExists = FALSE /\ cstate = "none" /\ exitStatus = 0
    /\ written = 0 /\ log = <<>>
    /\ conn = "none" /\ closeWrites = 0 /\ copied = 0
    /\ stdinPc = "idle" /\ outPc = "idle" /\ errChan = <<>>
    /\ notify = {} /\ sigChan = <<>> /\ relayPc = "off" /\ killErr = "nil"
    /\ received = <<>> /\ kills = <<>>
    /\ waitPc = "none" /\ statusCh = <<>> /\ errCh = <<>>
    /\ recv = [kind |-> "none", code |-> 0]
    /\ cancelled = FALSE
    /\ retCode = 0 /\ retErr = "nil" /\ procState = "running"
    /\ procExit = 0

\* Request building starts from a configuration file, the user's arguments
\* and the host's environment; nothing runs.
ReqInit ==
    /\ rpc = "global"
    /\ \/ rin \in Inputs /\ gfile = DefaultGlobal /\ cfile = "ok"
       \/ rin \in LoadInputs /\ gfile \in GlobalFiles /\ cfile \in CommandFiles
    /\ gcfg = "docker" /\ rt = "none" /\ calls = <<>> /\ lerr = "nil"
    /\ rvol = <<>>
    /\ dreq = NoRequest
    /\ pargs = NoArgs
    /\ scall = NoCall /\ stream = <<>> /\ sres = "none"
    /\ RunIdle

\* The error runCommand returns at once.
Fail(err) == rpc' = "failed" /\ lerr' = err

\* LoadGlobalConfig, config lines 63-84: the default "docker" when the file
\* cannot be read, an error when it cannot be unmarshalled, else what the
\* file says (the default for a missing entry).
GlobalConfigOf(file) ==
    IF file.state = "absent" THEN [Runtime |-> "docker", err |-> "nil"]
    ELSE IF file.state = "mistyped"
    THEN [Runtime |-> "docker", err |-> "global"]
    ELSE [Runtime |-> IF file.runtime = "unset" THEN "docker"
                                                ELSE file.runtime,
          err |-> "nil"]

LoadGlobalConfig ==
    /\ rpc = "global"
    /\ LET r == GlobalConfigOf(gfile)
       IN  IF r.err # "nil"
           THEN Fail(r.err) /\ gcfg' = gcfg
           ELSE rpc' = "load" /\ gcfg' = r.Runtime /\ lerr' = lerr
    /\ UNCHANGED <<rin, rvol, dreq, pargs, gfile, cfile, rt, calls, runAll>>

\* CommandConfigError that accepts a file with neither field.
CommandConfigError_NoValidation(file, in) ==
    IF file = "missing" THEN "notfound"
    ELSE IF file = "unreadable" THEN "read"
    ELSE IF file = "mistyped" THEN "unmarshal"
    ELSE "nil"

\* LoadCommandConfig, config lines 91-107: the error it returns in place of
\* a configuration ("nil": none).
CommandConfigError(file, in) ==
    IF file = "missing" THEN "notfound"
    ELSE IF file = "unreadable" THEN "read"
    ELSE IF file = "mistyped" THEN "unmarshal"
    ELSE IF in.Image = <<>> /\ ~in.Build THEN "invalid"
    ELSE "nil"

\* LoadCommandConfig, config lines 86-115: read, unmarshal, validate, and
\* expand every volume.
LoadCommandConfig ==
    /\ rpc = "load"
    /\ LET err == CommandConfigError(cfile, rin)
       IN  IF err # "nil"
           THEN Fail(err) /\ rvol' = rvol
           ELSE /\ rvol' = [i \in DOMAIN rin.Volumes |->
                              expandVolumePath(rin.Volumes[i], rin.env,
                                               rin.cwd)]
                /\ rpc' = "select" /\ lerr' = lerr
    /\ UNCHANGED <<rin, dreq, pargs, gfile, cfile, gcfg, rt, calls, runAll>>

\* NewRuntime that makes the Podman runtime for every name but "docker".
NewRuntime_DockerByName(name) == IF name = "docker" THEN "docker" ELSE "podman"

\* run.go lines 76-90: the switch on globalConfig.Runtime.
NewRuntime(name) == IF name = "podman" THEN "podman" ELSE "docker"

\* run.go lines 75-90: the runtime is made (NewDockerRuntime can fail).
SelectRuntime ==
    /\ rpc = "select"
    /\ \E made \in BOOLEAN :
         IF made \/ NewRuntime(gcfg) = "podman"
         THEN rt' = NewRuntime(gcfg) /\ rpc' = "call" /\ lerr' = lerr
         ELSE rt' = rt /\ Fail("client")
    /\ UNCHANGED <<rin, rvol, dreq, pargs, gfile, cfile, gcfg, calls, runAll>>

\* run.go lines 92-99: rt.IsAvailable and, if it is, rt.ExecuteCommand.
CallRuntime ==
    /\ rpc = "call"
    /\ \E available \in BOOLEAN :
         IF available
         THEN /\ calls' = calls \o <<Entry("IsAvailable", rt),
                                     Entry("ExecuteCommand", rt)>>
              /\ rpc' = "docker" /\ lerr' = lerr
         ELSE /\ calls' = Append(calls, Entry("IsAvailable", rt))
              /\ Fail("unavailable")
    /\ UNCHANGED <<rin, rvol, dreq, pargs, gfile, cfile, gcfg, rt, runAll>>

\* DockerRuntime.ExecuteCommand builds its creation request.
DockerBuildRequest ==
    /\ rpc = "docker"
    /\ dreq' = DockerRequest(rin, rvol)
    /\ rpc' = "podman"
    /\ UNCHANGED <<rin, rvol, pargs, loadVars, runAll>>

\* PodmanRuntime.ExecuteCommand builds its arguments from the same input.
PodmanBuildArgs ==
    /\ rpc = "podman"
    /\ pargs' = PodmanArgs(rin, rvol)
    /\ rpc' = "done"
    /\ UNCHANGED <<rin, rvol, dreq, loadVars, runAll>>

ReqNext ==
    \/ LoadGlobalConfig
    \/ LoadCommandConfig
    \/ SelectRuntime
    \/ CallRuntime
    \/ DockerBuildRequest
    \/ PodmanBuildArgs

ReqSpec == ReqInit /\ [][ReqNext]_vars

(* ============================================ build and pull progress *)
\* PullImage of the earlier revision: the stream is read and discarded.
PullImage_Discard(ok, body) == IF ~ok THEN "transport" ELSE "nil"

\* DockerRuntime.PullImage, lines 835-870: objects are decoded until the
\* end of the stream; a decoding failure and a non-empty error entry end
\* the loop with an error.
RECURSIVE DecodePull(_)
DecodePull(body) ==
    IF body = <<>> THEN "nil"
    ELSE IF Head(body).broken THEN "decode"
    ELSE IF Head(body).error # "" THEN "pull error"
    ELSE DecodePull(Tail(body))
PullImage(ok, body) == IF ~ok THEN "transport" ELSE DecodePull(body)

\* DockerRuntime.BuildImage, lines 903-943: the same loop, which looks at
\* errorDetail.message first and at error next.
RECURSIVE DecodeBuild(_)
DecodeBuild(body) ==
    IF body = <<>> THEN "nil"
    ELSE IF Head(body).broken THEN "decode"
    ELSE IF Head(body).detail # "" THEN "build error"
    ELSE IF Head(body).error # "" THEN "build error"
    ELSE DecodeBuild(Tail(body))
DockerBuildImage(ok, body) == IF ~ok THEN "transport" ELSE DecodeBuild(body)

\* Everything but the stream.
notStream == <<pc, runVars, reqImage, cfgVars, termVars, engineVars, log,
               ioVars, sigVars, waitVars, cancelled, retVars,
               rpc, rin, rvol, dreq, pargs, loadVars>>

\* The engine is about to be asked for a pull or a build.
StreamInit ==
    /\ scall = NoCall /\ stream = <<>> /\ sres = "none"
    /\ rpc = "off" /\ rin = DefaultInput /\ rvol = <<>>
    /\ dreq = NoRequest /\ pargs = NoArgs
    /\ gfile = DefaultGlobal /\ cfile = "ok" /\ gcfg = "docker"
    /\ rt = "none" /\ calls = <<>> /\ lerr = "nil"
    /\ RunIdle

\* client.ImagePull / client.ImageBuild: the call fails, or answers with a
\* stream of status objects.
EngineAnswers ==
    /\ scall.op = "none"
    /\ \E op \in {"pull", "build"}, ok \in BOOLEAN, body \in Streams :
         /\ ~ok => body = <<>>
         /\ scall' = [op |-> op, ok |-> ok]
         /\ stream' = body
    /\ UNCHANGED <<sres, notStream>>

\* PullImage reads the stream and returns.
PullImageReturns ==
    /\ scall.op = "pull" /\ sres = "none"
    /\ sres' = PullImage(scall.ok, stream)
    /\ UNCHANGED <<scall, stream, notStream>>

\* BuildImage reads the stream and returns.
BuildImageReturns ==
    /\ scall.op = "build" /\ sres = "none"
    /\ sres' = DockerBuildImage(scall.ok, stream)
    /\ UNCHANGED <<scall, stream, notStream>>

StreamNext ==
    \/ EngineAnswers
    \/ PullImageReturns
    \/ BuildImageReturns

StreamSpec == StreamInit /\ [][StreamNext]_vars

(* ================================================================ claims *)
Returned == pc \in {"returned", "exited"}
Succeeded(op) == \E i \in DOMAIN log : log[i] = Entry(op, "ok")
\* Every call of op b in the log comes after a successful call of op a.
Before(a, b) ==
    \A j \in DOMAIN log :
        log[j].op = b => \E i \in 1..(j - 1) : log[i] = Entry(a, "ok")
FailedLocally == Returned /\ retCode = LocalFailure /\ retErr # "nil"

\* C1: when the select receives the container's status, ExecuteCommand
\* returns that status with no error, and the wrapper exits with it.
C1_StatusIsExitCode ==
    recv.kind = "status" =>
        /\ Returned
        /\ retCode = exitStatus
        /\ retErr = "nil"
        /\ pc = "exited" => procState = "exited" /\ procExit = exitStatus
C1_Witness ==
    pc = "exited" /\ recv.kind = "status" /\ exitStatus = 2 /\ procExit = 2

\* C2: create precedes attach, attach precedes start, and start precedes
\* the launch of either copy task, the relay and every kill request.
C2_Ordering ==
    /\ Before("create", "attach")
    /\ Before("attach", "start")
    /\ Before("start", "wait")
    /\ (stdinPc # "idle" \/ outPc # "idle" \/ relayPc # "off"
          \/ notify # {} \/ kills # <<>> \/ copied > 0)
       => Succeeded("start") /\ cstate \in {"running", "exited"}
    /\ cstate \in {"running", "exited"} => conn # "none"
C2_Witness ==
    kills # <<>> /\ stdinPc = "done" /\ outPc = "done"

\* C3: when ExecuteCommand returns the container's status, every chunk the
\* container wrote has been copied to the host.
C3_NoOutputDropped ==
    (Returned /\ recv.kind = "status") => copied = written

\* C4: a first creation that fails with "No such image" is followed by one
\* pull and, if the pull succeeds, one retry; a failed pull, a failed retry
\* and a creation failure of another kind are fatal; never more than two
\* creation attempts.
C4_PullOnceRetryOnce ==
    LET cs == {i \in DOMAIN log : log[i].op = "create"}
        ps == {i \in DOMAIN log : log[i].op = "pull"}
        first == CHOOSE i \in cs : \A k \in cs : i <= k
    IN  /\ Cardinality(cs) <= 2
        /\ Cardinality(ps) <= 1
        /\ \A i \in ps : i - 1 = first /\ log[first].res = "noimage"
        /\ \A i \in cs : i # first => log[i - 1] = Entry("pull", "ok")
        /\ \A i \in cs :
             (log[i].res = "noimage" /\ i = first /\ pc # "pull")
                => Cardinality(ps) = 1
        /\ \A i \in ps :
             (log[i].res = "ok" /\ pc # "retry") => Cardinality(cs) = 2
        /\ \A i \in DOMAIN log :
             \/ log[i] = Entry("pull", "err")
             \/ log[i].op = "create" /\ log[i].res = "other"
             \/ log[i].op = "create" /\ i # first /\ log[i].res # "ok"
             => i = Len(log) /\ FailedLocally /\ cstate = "none"
C4_Witness ==
    /\ Len(SelectSeq(log, LAMBDA e : e.op = "create")) = 2
    /\ Len(SelectSeq(log, LAMBDA e : e.op = "pull")) = 1
    /\ cstate = "created"

\* C5: the end of a copy task changes nothing of the controller, and the
\* controller leaves the wait only on a status, a wait error or a
\* cancellation.
C5_CopyEndIsNoExit ==
    [][ /\ errChan' # errChan
           => UNCHANGED <<pc, recv, retCode, retErr, procState>>
        /\ (pc = "waiting" /\ pc' # "waiting")
           => \/ recv'.kind = "status" /\ statusCh # <<>>
              \/ recv'.kind = "error" /\ errCh # <<>>
              \/ recv'.kind = "cancel" /\ cancelled ]_vars
C5_Witness ==
    pc = "waiting" /\ stdinPc = "done" /\ outPc = "done" /\ cstate = "running"

\* C6: once the container is started the controller reaches the wait
\* (unless a signal ends the process before the relay is installed), and
\* once the wait has a status or an error to deliver, or the context is
\* cancelled, ExecuteCommand returns, whatever the copy tasks do.
C6_NoHang ==
    /\ (Alive /\ pc \in {"term", "signals", "gostdin", "goout", "callwait"})
          ~> (pc = "waiting" \/ ~Alive)
    /\ (pc = "waiting" /\ (statusCh # <<>> \/ errCh # <<>> \/ cancelled))
          ~> Returned
C6_Witness ==
    pc = "returned" /\ stdinPc = "copying" /\ outPc = "copying"

\* C7: when ExecuteCommand has returned the terminal is in the mode it was
\* in at entry, and with stdin not a terminal it is never touched.
C7_TerminalRestored ==
    /\ Returned => termMode = host.entryMode
    /\ ~host.stdinTty => termMode = host.entryMode /\ oldTermState = "nil"
    /\ termMode # host.entryMode => oldTermState = host.entryMode
C7_Witness ==
    pc = "returned" /\ oldTermState = "cooked" /\ recv.kind = "cancel"

\* C8: after ExecuteCommand has returned from a run that installed the
\* relay, the relay's channel is no longer subscribed to host signals.
C8_RelayTornDown ==
    (Returned /\ relayPc # "off") => RelayChan \notin notify

\* C9: while the container runs, every signal received is forwarded exactly
\* once, in order: the kill requests issued, followed by the signals still
\* queued, are the signals received.
C9_EverySignalForwarded ==
    cstate = "running" => kills \o sigChan = received

\* C10: a kill request that fails is swallowed: the relay goes back to
\* receiving, the controller and the process are untouched, and a status
\* the wait delivered is still what is returned.
C10_KillFailureSwallowed ==
    [][ /\ (relayPc = "kill" /\ relayPc' # "kill")
           => /\ relayPc' = "recv"
              /\ UNCHANGED <<pc, recv, retCode, retErr, procState, procExit,
                             statusCh, errCh, cstate, exitStatus>>
        /\ (killErr' \in {"err", "notfound"} /\ recv'.kind = "status")
           => retCode' = exitStatus' /\ retErr' = "nil" ]_vars
C10_Witness ==
    /\ killErr = "notfound" /\ recv.kind = "status"
    /\ pc = "exited" /\ procExit = exitStatus /\ exitStatus = 2

\* C11 as claimed: a context cancelled during the wait makes ExecuteCommand
\* leave the wait with the local failure code and an error, never with the
\* container's status.
C11_CancelBeatsStatus ==
    [][ (pc = "waiting" /\ cancelled /\ pc' # "waiting")
           => (retCode' = LocalFailure /\ retErr' # "nil") ]_vars

\* C11, amended: when the context is cancelled during the wait and no
\* status had been delivered before, none is delivered afterwards and
\* ExecuteCommand leaves the wait with the local failure code and the
\* context's error or the wait's error; a status delivered before the
\* cancellation may still be what the select takes.
C11_CancelFailsUnlessStatusReady ==
    [][ /\ (cancelled /\ statusCh = <<>>) => statusCh' = <<>>
        /\ (pc = "waiting" /\ cancelled /\ statusCh = <<>>
              /\ pc' # "waiting")
           => /\ retCode' = LocalFailure
              /\ retErr' \in {"ctx", "wait"}
              /\ recv'.kind \in {"cancel", "error"}
        /\ recv'.kind = "cancel"
           => (cancelled /\ retCode' = LocalFailure /\ retErr' = "ctx") ]_vars
C11_Witness ==
    /\ pc = "returned" /\ recv.kind = "cancel" /\ cstate = "exited"
    /\ retCode = LocalFailure /\ retErr = "ctx" /\ exitStatus = 0

\* C12: a wait error returns the local failure code with an error, and the
\* Docker backend returns 0 with no error only when the wait delivered the
\* status 0 of the exited container.
C12_WaitErrorIsFailure ==
    /\ recv.kind = "error"
          => (Returned /\ retCode = LocalFailure /\ retErr = "wait")
    /\ (pc = "exited" /\ recv.kind = "error") => procExit = LocalFailure
    /\ (runtime = "docker" /\ Returned /\ retCode = 0 /\ retErr = "nil")
          => (recv.kind = "status" /\ cstate = "exited" /\ exitStatus = 0)
C12_Witness ==
    /\ pc = "exited" /\ recv.kind = "error" /\ procExit = LocalFailure
    /\ cstate = "exited" /\ exitStatus = 0

\* Positions in log of the engine calls of one kind, and of the calls that
\* create or run the container.
Idx(op) == {i \in DOMAIN log : log[i].op = op}
Launches == Idx("create") \cup Idx("run")
BuiltBefore(j) == \E i \in 1..(j - 1) : log[i] = Entry("build", "ok")

\* C13 as claimed: with an inline build and the rebuild flag, every build
\* is preceded by an attempt to remove the image.
C13_RemoveThenRebuild ==
    (cfg.Build /\ upgrade)
       => \A j \in Idx("build") : \E i \in 1..(j - 1) : log[i].op = "remove"

\* C13, amended: with an inline build and the rebuild flag the image is
\* rebuilt before any creation or run, whether it existed and whatever the
\* removal answered; Podman always attempts the removal first, Docker
\* attempts it exactly when its inspection found the image.
C13_RebuildUnconditional ==
    (cfg.Build /\ upgrade) =>
        /\ Cardinality(Idx("build")) <= 1
        /\ \A j \in Launches : BuiltBefore(j)
        /\ \A j \in Idx("build") :
             /\ j > 1
             /\ IF runtime = "podman"
                THEN log[j - 1].op = "remove"
                ELSE \/ log[j - 1].op = "remove"
                        /\ log[j - 2] = Entry("inspect", "ok")
                     \/ log[j - 1] = Entry("inspect", "err")
        /\ \A i \in Idx("remove") :
             IF i = Len(log) THEN pc \in {"build", "p_build"}
                             ELSE log[i + 1].op = "build"
        /\ \A i \in DOMAIN log :
             log[i] = Entry("inspect", "ok")
                => IF i = Len(log) THEN pc = "remove"
                                   ELSE log[i + 1].op = "remove"
C13_Witness ==
    /\ runtime = "docker" /\ cfg.Build /\ upgrade /\ cstate = "created"
    /\ \E i \in DOMAIN log :
         /\ log[i] = Entry("inspect", "ok")
         /\ log[i + 1] = Entry("remove", "err")
         /\ log[i + 2] = Entry("build", "ok")

\* C14 as claimed: with an inline build, every creation or run of the
\* container is preceded by a build.
C14_AlwaysBuilds ==
    cfg.Build
       => \A j \in Launches : \E i \in 1..(j - 1) : log[i].op = "build"

\* C14, amended: with an inline build, Podman builds before every run;
\* Docker builds before creation unless its inspection found the image and
\* the rebuild flag is false, in which case it creates the container from
\* the image it found without building.
C14_BuildsUnlessCached ==
    cfg.Build =>
        \A j \in Launches :
            LET cached == /\ runtime = "docker" /\ ~upgrade
                          /\ \E i \in 1..(j - 1) :
                                log[i] = Entry("inspect", "ok")
            IN  /\ cached => Idx("build") = {} /\ Idx("remove") = {}
                /\ ~cached => BuiltBefore(j)
                /\ reqImage = BuiltImage
C14_Witness ==
    /\ runtime = "docker" /\ cfg.Build /\ ~upgrade /\ cstate = "created"
    /\ Idx("build") = {} /\ reqImage = BuiltImage

\* C15: a failed build is the last engine call of the invocation:
\* ExecuteCommand returns the local failure code with the build's error,
\* and no container is created or run.
C15_BuildFailureAborts ==
    \A i \in DOMAIN log :
        log[i] = Entry("build", "err") =>
            /\ i = Len(log) /\ Launches = {}
            /\ Returned /\ retCode = LocalFailure /\ retErr = "build"
            /\ cstate = "none"
            /\ pc = "exited" => procExit = LocalFailure
C15_Witness ==
    /\ runtime = "podman" /\ pc = "exited" /\ retErr = "build"
    /\ log[Len(log)] = Entry("build", "err") /\ procExit = LocalFailure

\* The first-ever invocation of an inline-build command without the force
\* flag: no stored hash and no cached image (no inspection found one, no
\* removal succeeded).
FirstRun ==
    /\ cfg.Build /\ stored = "none" /\ ~force /\ pc # "version"
    /\ Entry("inspect", "ok") \notin {log[i] : i \in DOMAIN log}
    /\ Entry("remove", "ok") \notin {log[i] : i \in DOMAIN log}

\* C16 as claimed: the first-ever invocation attempts no removal, builds
\* once and creates or runs the container from dox-<command>:latest.
C16_FirstRunNoRemove ==
    FirstRun =>
        /\ Idx("remove") = {}
        /\ Cardinality(Idx("build")) <= 1
        /\ \A j \in Launches : BuiltBefore(j) /\ reqImage = BuiltImage

\* C16, amended: on the first-ever invocation the missing hash raises the
\* rebuild flag (unless the YAML file cannot be hashed); Docker attempts no
\* removal, Podman attempts one exactly when the flag was raised and
\* ignores its failure; both build exactly once and create or run the
\* container from dox-<command>:latest.
C16_FirstRunBuildsOnce ==
    FirstRun =>
        /\ upgrade = commandChanged
        /\ runtime = "docker" => Idx("remove") = {}
        /\ runtime = "podman" =>
             /\ Cardinality(Idx("remove")) <= 1
             /\ Idx("remove") # {} => upgrade
             /\ (upgrade /\ Idx("build") # {}) => Idx("remove") # {}
        /\ Cardinality(Idx("build")) <= 1
        /\ \A j \in Launches : BuiltBefore(j) /\ reqImage = BuiltImage
C16_Witness ==
    /\ runtime = "podman" /\ FirstRun /\ upgrade /\ pc = "returned"
    /\ retCode = 0 /\ reqImage = BuiltImage
    /\ SelectSeq(log, LAMBDA e : e.op # "ping")
         = <<Entry("remove", "err"), Entry("build", "ok"), Entry("run", "ok")>>

\* C17: a failed eager pull is followed by the creation (Docker) or the
\* run (Podman) of the container; it never ends the invocation.
C17_EagerPullNonFatal ==
    \A i \in DOMAIN log :
        log[i] = Entry("eagerpull", "err") =>
            /\ upgrade /\ ~cfg.Build
            /\ IF i = Len(log)
               THEN pc \in {"create", "p_prepare", "p_run"} /\ retErr = "nil"
               ELSE log[i + 1].op \in {"create", "run"}
C17_Witness ==
    /\ runtime = "podman" /\ pc = "p_wait"
    /\ \E i \in DOMAIN log :
         log[i] = Entry("eagerpull", "err") /\ i < Len(log)
            /\ log[Len(log)] = Entry("run", "ok")

\* C18: an image reference with a digest pin is never handed to the eager
\* pull of an execution with the rebuild flag.
C18_PinnedNeverPulled ==
    \A i \in Idx("eagerpull") : ~HasDigestPin(cfg.Image)

\* C19: when IsAvailable fails run ends with the error (the process exits
\* with 1) having made no other engine call: no removal, build, pull,
\* creation or start; and every other engine call follows a successful
\* IsAvailable.
C19_UnavailableDoesNothing ==
    /\ pc = "unavailable" =>
          /\ log = <<Entry("ping", "err")>>
          /\ cstate = "none" /\ reqImage = <<>>
          /\ procState = "exited" /\ procExit = LocalFailure
    /\ \A i \in DOMAIN log :
          /\ log[i] = Entry("ping", "err") => pc = "unavailable"
          /\ log[i].op = "ping" <=> i = 1
C19_Witness ==
    /\ pc = "unavailable" /\ runtime = "podman" /\ cfg.Build /\ upgrade
    /\ procExit = LocalFailure

\* C20: the rebuild flag is decided once, by the version check before the
\* backend is called: it is the force flag raised by the change signal for
\* an inline build only, it is never lowered, and a changed definition of
\* a registry-image command causes no eager pull.
C20_RebuildDecision ==
    [][ /\ force' = force /\ (force' => upgrade')
        /\ upgrade => upgrade'
        /\ upgrade' # upgrade => (pc = "version" /\ commandChanged')
        /\ pc' # "version"
             => upgrade' = (force' \/ (commandChanged' /\ cfg'.Build))
        /\ (~cfg'.Build /\ ~force')
             => (~upgrade' /\ \A i \in DOMAIN log' :
                                  log'[i].op # "eagerpull") ]_vars
C20_Witness ==
    /\ ~force /\ upgrade /\ commandChanged /\ stored = "stale"
    /\ cfg.Build /\ cstate = "created"

\* C21: the exit code of a local failure is reserved: a run whose
\* ExecuteCommand returned the container's status with no error never
\* exits with it.
C21_LocalFailureReserved ==
    (pc = "exited" /\ retErr = "nil") => procExit # LocalFailure

\* C22: ExecuteCommand leaves every field of the command configuration it
\* is given as it was, the image reference included.
C22_SpecReadOnly == [][cfg' = cfg]_vars
\* C22 (amended): the build section is never written, and the image
\* reference is written only for an inline build, with the derived name
\* dox-<command>:latest.
C22_OnlyBuiltImageWritten ==
    [][ /\ cfg'.Build = cfg.Build
        /\ cfg'.Image # cfg.Image
             => (cfg.Build /\ cfg'.Image = ImageName(Command)) ]_vars
C22_Witness ==
    /\ Returned /\ cfg.Build /\ cfg.Image = ImageName(Command)
    /\ reqImage = ImageName(Command)

\* C29: a pseudo-terminal is requested, and raw mode entered, only when
\* both stdin and stdout are terminals, in both backends.
C29_TtyOnlyOnTerminals ==
    /\ tty => isTerminal
    /\ (termMode = "raw" /\ host.entryMode # "raw") => isTerminal

\* The name=value entries of a list of strings, in order, and the number of
\* entries of a list that are for one name.
IsEnvEntry(e) == Len(e) >= 2 /\ e[2] = "="
EnvEntries(list) == SelectSeq(list, IsEnvEntry)
EntriesOf(list, name) ==
    Cardinality({i \in DOMAIN list : IsEnvEntry(list[i]) /\ list[i][1] = name})
Declared(name) == \E i \in DOMAIN rin.Environment : rin.Environment[i] = name
Built == rpc = "done"

\* C23: a declared name that is unset or empty on the host has no entry in
\* the request's environment, a declared name with a non-empty value v has
\* exactly one entry, name=v, and an undeclared name has none.
C23_EnvExactlyOnce ==
    Built =>
      \A n \in EnvNames :
        /\ EntriesOf(dreq.Env, n) =
             (IF Declared(n) /\ rin.env[n] # <<>> THEN 1 ELSE 0)
        /\ EntriesOf(pargs.opts, n) = EntriesOf(dreq.Env, n)
        /\ \A i \in DOMAIN dreq.Env :
             dreq.Env[i][1] = n => dreq.Env[i] = <<n, "=">> \o rin.env[n]
\* C23 (amended): the environment has one entry name=v for every
\* declaration of a name whose host value v is not empty, in the order of
\* the declarations, and nothing else; Podman passes the same entries,
\* each after -e.
C23_EnvPerDeclaration ==
    Built =>
      LET NonEmpty(n) == rin.env[n] # <<>>
          kept == SelectSeq(rin.Environment, NonEmpty)
          passed == EnvEntries(pargs.opts)
      IN  /\ Len(dreq.Env) = Len(kept)
          /\ \A i \in DOMAIN kept :
                dreq.Env[i] = <<kept[i], "=">> \o rin.env[kept[i]]
          /\ passed = dreq.Env
          /\ \A i \in DOMAIN pargs.opts :
                IsEnvEntry(pargs.opts[i]) => pargs.opts[i - 1] = <<"-e">>
C23_Witness ==
    /\ Built /\ rin.Environment = <<"A", "A">> /\ rin.env["A"] = <<"w">>
    /\ rin.env["B"] = <<>>
    /\ dreq.Env = << <<"A", "=", "w">>, <<"A", "=", "w">> >>

\* C24: with a non-empty port list, a network mode other than host (the
\* empty default and custom names included) and a list that parses give
\* a non-empty port-binding table; the network mode host gives an empty
\* port-binding table and an empty exposed-port set.
C24_PortsUnlessHost ==
    (Built /\ Len(rin.Ports) > 0) =>
      /\ (rin.Network # <<"host">>
            /\ \A i \in DOMAIN rin.Ports : rin.Ports[i].valid)
           => (dreq.err = "nil" /\ DOMAIN dreq.PortBindings # {}
               /\ dreq.ExposedPorts = DOMAIN dreq.PortBindings)
      /\ rin.Network = <<"host">>
           => (dreq.err = "nil" /\ DOMAIN dreq.PortBindings = {}
               /\ dreq.ExposedPorts = {})
C24_Witness ==
    /\ Built /\ rin.Network = <<>> /\ Len(rin.Ports) = 2
    /\ rin.Ports[1] # rin.Ports[2]
    /\ Cardinality(DOMAIN dreq.PortBindings) = 3

\* The source of a volume string (what precedes its first ":", all of it
\* when there is none) and the rest, from the first ":" on.
HasSep(v) == \E k \in DOMAIN v : v[k] = Sep
FirstSep(v) == CHOOSE k \in DOMAIN v : v[k] = Sep /\ \A h \in 1..(k - 1) : v[h] # Sep
SourceOf(v) == IF HasSep(v) THEN SubSeq(v, 1, FirstSep(v) - 1) ELSE v
RestOf(v) == IF HasSep(v) THEN SubSeq(v, FirstSep(v), Len(v)) ELSE <<>>
Rewritten(v) ==
    (IF SourceOf(v) = <<".">> THEN rin.cwd ELSE ExpandEnv(SourceOf(v), rin.env))
        \o RestOf(v)

\* LoadCommandConfig has returned a configuration.
Loaded == rpc \in {"select", "call", "docker", "podman", "done"}

\* C25: every declared volume has a source of "." rewritten to the working
\* directory and any other source expanded, its target and mode unchanged.
C25_EveryVolumeExpanded ==
    Loaded =>
      /\ Len(rvol) = Len(rin.Volumes)
      /\ \A i \in DOMAIN rin.Volumes : rvol[i] = Rewritten(rin.Volumes[i])
\* C25 (amended): so it is for every volume that has a ":"; a volume
\* without one is left as it is declared.
C25_VolumeWithTargetExpanded ==
    Loaded =>
      /\ Len(rvol) = Len(rin.Volumes)
      /\ \A i \in DOMAIN rin.Volumes :
            rvol[i] = IF HasSep(rin.Volumes[i]) THEN Rewritten(rin.Volumes[i])
                                                ELSE rin.Volumes[i]
C25_Witness ==
    /\ Built
    /\ rin.Volumes = << <<".", Sep, "/workspace">>,
                        <<"${B}", "/cache", Sep, "/cache", Sep, "ro">> >>
    /\ rvol = << <<"/w", Sep, "/workspace">>,
                 <<"/cache", Sep, "/cache", Sep, "ro">> >>

\* The values that follow a flag in a list of arguments, in order.
RECURSIVE ValuesAfter(_, _)
ValuesAfter(flag, list) ==
    IF Len(list) < 2 THEN <<>>
    ELSE IF Head(list) = flag
         THEN <<list[2]>> \o ValuesAfter(flag, Tail(Tail(list)))
         ELSE ValuesAfter(flag, Tail(list))
WorkspaceMount == rin.cwd \o <<Sep, "/workspace">>

\* C26: the first mount is the working directory at /workspace, and the
\* declared volumes follow it in their declared order, none added, dropped
\* or reordered; Podman is given the same mounts, each after -v.
C26_MountsInOrder ==
    Built =>
      /\ Len(dreq.Binds) = 1 + Len(rin.Volumes)
      /\ dreq.Binds[1] = WorkspaceMount
      /\ \A i \in DOMAIN rin.Volumes : dreq.Binds[i + 1] = rvol[i]
      /\ ValuesAfter(<<"-v">>, pargs.opts) = dreq.Binds
C26_Witness ==
    /\ Built /\ Len(rin.Volumes) = 2 /\ rvol[1] # rvol[2]
    /\ rvol[2] = <<"/w", Sep, "/workspace">>
    /\ Len(dreq.Binds) = 3

\* C27: the container's arguments are the override followed by the user's
\* arguments when there is an override, and the user's arguments alone
\* (none when none are given) otherwise, in both backends.
C27_Argv ==
    Built =>
      LET argv == IF rin.Command # <<>> THEN <<rin.Command>> \o rin.Args
                                        ELSE rin.Args
      IN  dreq.Cmd = argv /\ pargs.cmd = argv
C27_Witness ==
    /\ Built /\ rin.Command = <<"sh">> /\ Len(rin.Args) = 2
    /\ dreq.Cmd = <<rin.Command, rin.Args[1], rin.Args[2]>>
    /\ rin.Args[1] # rin.Args[2]

\* C28: the working directory /workspace is set exactly when there is no
\* inline build, in both backends.
C28_WorkdirUnlessBuild ==
    Built =>
      /\ dreq.WorkingDir = (IF rin.Build THEN <<>> ELSE <<"/workspace">>)
      /\ ValuesAfter(<<"-w">>, pargs.opts) =
            (IF rin.Build THEN <<>> ELSE << <<"/workspace">> >>)

\* C30: the network mode and the published ports Podman is given are those
\* of the Docker creation request built from the same input.
C30_SameNetworkAndPorts ==
    (Built /\ dreq.err = "nil") =>
      /\ \A i \in DOMAIN pargs.opts :
            pargs.opts[i][1] = "--network="
              => Tail(pargs.opts[i]) = dreq.NetworkMode
      /\ Len(ValuesAfter(<<"-p">>, pargs.opts)) =
            Cardinality(DOMAIN dreq.PortBindings)

\* C32: a Podman child that ran and ended with a non-zero code yields that
\* code with no error, one that ended with zero yields 0, and only a child
\* that could not be launched yields the local failure code with an error.
C32_ChildCodeIsExitCode ==
    (runtime = "podman" /\ Returned) =>
      /\ Succeeded("run") => (retErr = "nil" /\ retCode = exitStatus)
      /\ retErr = "run" <=> log[Len(log)] = Entry("run", "err")
      /\ retErr = "run" => retCode = LocalFailure
      /\ pc = "exited" /\ Succeeded("run") => procExit = exitStatus
C32_Witness ==
    /\ runtime = "podman" /\ pc = "exited" /\ Succeeded("run")
    /\ exitStatus = 2 /\ procExit = 2 /\ retErr = "nil"

\* C33: the stdin copy closes the write side of the container's input
\* exactly once, when it ends, and never while it is still copying.
C33_CloseWriteOnce ==
    /\ closeWrites = (IF stdinPc = "done" THEN 1 ELSE 0)
    /\ stdinPc = "done" => Len(errChan) >= 1
C33_Witness ==
    /\ stdinPc = "done" /\ closeWrites = 1 /\ cstate = "running"
    /\ outPc = "copying" /\ pc = "waiting"

\* C36: no return of the Docker backend leaves behind a container that was
\* created and never started.
C36_NoCreatedLeftBehind ==
    (runtime = "docker" /\ Returned) => cstate # "created"

\* C37: whenever the invocation has the terminal in raw mode, the relay's
\* channel is subscribed, so that no termination signal takes its default
\* action and ends the process with the terminal raw.
C37_RawImpliesRelay ==
    /\ (termMode = "raw" /\ host.entryMode # "raw") => RelayChan \in notify
    /\ procState = "killed" => termMode = host.entryMode

\* C38: the copy tasks never block on their result channel: each sends one
\* value when it ends, nothing is ever received from the channel, and a
\* task that has yet to send always finds room.
C38_CopyNeverBlocks ==
    /\ Len(errChan) = (IF stdinPc = "done" THEN 1 ELSE 0)
                        + (IF outPc = "done" THEN 1 ELSE 0)
    /\ Len(errChan) <= ErrChanCap
    /\ (stdinPc = "copying" \/ outPc = "copying") => Len(errChan) < ErrChanCap
C38_Witness ==
    /\ Len(errChan) = ErrChanCap /\ pc = "waiting" /\ cstate = "running"
    /\ stdinPc = "done" /\ outPc = "done"

\* C39: the stored hash changes only at the exit of a run that returned
\* code 0 with no error and had the change signal or the rebuild flag;
\* after a failed run it is as before, so a definition reported as changed
\* is reported as changed again by the next invocation.
C39_HashOnlyAfterSuccess ==
    [][ /\ stored' # stored
             => /\ pc = "returned" /\ pc' = "exited" /\ stored' = "same"
                /\ retErr = "nil" /\ retCode = 0 /\ procExit' = 0
                /\ commandChanged \/ upgrade
        /\ (pc' = "exited" /\ pc # "exited" /\ procExit' # 0)
             => /\ stored' = stored
                /\ commandChanged => HasCommandChanged(TRUE)'.changed ]_vars
C39_Witness ==
    /\ pc = "exited" /\ procExit = 2 /\ retErr = "nil" /\ commandChanged
    /\ stored = "stale" /\ HasCommandChanged(TRUE).changed

\* The errors of LoadCommandConfig, and what makes a file acceptable.
LoadErrors == {"notfound", "read", "unmarshal", "invalid"}
ValidFile == cfile = "ok" /\ (rin.Image # <<>> \/ rin.Build)
CommandLoadTried == rpc \notin {"global", "load"} /\ lerr # "global"

\* C34: LoadCommandConfig returns a configuration only for a file that
\* exists and has an image or an inline build; otherwise it returns an
\* error and no configuration, and no runtime is ever given such a file.
C34_OnlyValidSpecLoaded ==
    /\ Loaded => (ValidFile /\ lerr = "nil")
    /\ CommandLoadTried => (lerr \in LoadErrors <=> ~ValidFile)
    /\ lerr \in LoadErrors
         => (rpc = "failed" /\ rvol = <<>> /\ rt = "none" /\ calls = <<>>
             /\ dreq = NoRequest /\ pargs = NoArgs)
    /\ calls # <<>> => ValidFile
C34_Witness ==
    /\ rpc = "failed" /\ lerr = "invalid" /\ cfile = "ok"
    /\ rin.Image = <<>> /\ ~rin.Build /\ calls = <<>>

\* C35: the runtime is made once, Podman for the selector "podman" and
\* Docker for every other value, the default of a missing global
\* configuration included, and every call goes to the runtime made.
C35_RuntimeBySelector ==
    [][ /\ rt # "none" => rt' = rt
        /\ rt' # "none"
             => /\ rt' = (IF gfile.state = "ok" /\ gfile.runtime = "podman"
                          THEN "podman" ELSE "docker")
                /\ gfile'.state = "absent" => rt' = "docker"
        /\ \A i \in DOMAIN calls' : calls'[i].res = rt' ]_vars
C35_Witness ==
    /\ Built /\ gfile = GlobalFile("ok", "nerdctl") /\ rt = "docker"
    /\ calls = <<Entry("IsAvailable", "docker"),
                 Entry("ExecuteCommand", "docker")>>

\* C40: every declared mapping is in the binding table under its container
\* port, also when two mappings name the same container port, and a list
\* with an invalid string fails the request.
C40_EveryMappingKept ==
    (Built /\ rin.Network # <<"host">>) =>
      /\ (\E i \in DOMAIN rin.Ports : ~rin.Ports[i].valid)
            => dreq.err = "ports"
      /\ dreq.err = "nil" =>
            \A i \in DOMAIN rin.Ports :
              LET ms == ParsePortSpec(rin.Ports[i]).mappings
              IN  \A j \in DOMAIN ms :
                    /\ ms[j].Port \in DOMAIN dreq.PortBindings
                    /\ \E k \in DOMAIN dreq.PortBindings[ms[j].Port] :
                          dreq.PortBindings[ms[j].Port][k] = ms[j].Binding

\* C31: when an object of the progress stream has an error entry,
\* BuildImage or PullImage returns an error although the call itself
\* succeeded; it returns no error only if no object of the stream has one.
C31_StreamErrorIsFatal ==
    (sres # "none" /\ scall.ok) =>
      LET HasError(o) == o.error # "" \/ o.detail # ""
      IN  /\ (\E i \in DOMAIN stream : HasError(stream[i])) => sres # "nil"
          /\ sres = "nil" <=>
                \A i \in DOMAIN stream : stream[i] = Progress
C31_Witness ==
    /\ scall = [op |-> "pull", ok |-> TRUE] /\ sres = "pull error"
    /\ stream = <<Progress, Progress, ErrorObject>>

====
